---- MODULE Spec2Model ----
(***************************************************************************)
(* Model of the telemetry core of the healthcare IoT backend:              *)
(*   - the MQTT connection supervisor (setupMqttClient and its handlers),  *)
(*   - the session aggregator (client.on('message') -> handleDeviceData),  *)
(*   - the cloud sync service (SyncService).                               *)
(* Every await of the JavaScript source is a step boundary of the model:   *)
(* the code between two awaits runs atomically on the event loop.          *)
(***************************************************************************)
EXTENDS Integers, Sequences, FiniteSets, TLC

(***************************************************************************)
(* Program constants (mqttConfig, SyncService)                             *)
(***************************************************************************)
maxReconnectAttempts == 10

reconnectDelay == 1000

maxReconnectDelay == 30000

BatchLimit == 100

\* bytes before the values of a frame: discriminator, sessionId, timestamp
HeaderLen == 13

(***************************************************************************)
(* Bounds of the model                                                     *)
(***************************************************************************)
\* total number of reconnect attempts one client instance is followed for
MaxReconnects == 12

\* number of disconnect() calls issued to one client instance
MaxDisconnectCalls == 2

\* number of messages delivered to the aggregator
MaxEvents == 3

\* largest number of data points carried by one message
MaxSamples == 3

\* number of storage operations of the aggregator that may fail
MaxIngestFailures == 1

\* number of forceSyncRecords invocations
MaxForceCalls == 1

\* largest length in bytes of a wireless frame
MaxFrameLen == 18

\* number of connectToDevice calls (direct ones and those of discoveries)
MaxConnects == 3

\* number of discovery timeouts of startScanning pending at one time
MaxPendingDiscoveries == 1

\* number of connectToDevice calls made for one peripheral
MaxPeripheralAttempts == 3

\* number of POST /api/auth/forgot-password requests
MaxRequests == 3

\* number of startSyncJob calls
MaxStartCalls == 3

\* number of devices registered
MaxDevices == 2

\* number of session records posted
MaxRecords == 1

\* number of shutdown signals the process receives
MaxSignals == 2

\* number of storage operations of connectToDevice that may fail
MaxConnectFailures == 1

\* number of syncData invocations (timer ticks and direct calls)
MaxSyncCalls == 3

\* unsynced EMG records beyond one batch in the large store
ExtraEMG == 50

\* unsynced EMS records beyond one batch in the large store
ExtraEMS == 1

\* number of storage operations of the sync service that may fail
MaxStorageFailures == 1

\* unsynced EMG records in the small store
SmallEMG == 10

\* unsynced EMS records in the small store
SmallEMS == 2

DeviceIds == {"D1", "D2"}

\* serial numbers that have a Device document
RegisteredDevices == {"D1"}

SessionIds == {"S1", "S2"}

DataTypes == {"emg", "ems"}

\* number of data points of a message
SampleCounts == {MaxSamples - 1, MaxSamples}

\* clock ticks that pass while a handler waits for its storage reads
Latencies == {0, 1}

\* first byte of a wireless frame: 1 = EMG, 2 = EMS, anything else unknown
Discriminators == {0, 1, 2, 3}

VARIABLES
  \* ---- MQTT connection ----
  clientState,      \* mqtt.js client: "connecting" | "connected" | "offline" | "ended"
  isConnected,      \* connectionState.isConnected
  reconnectCount,   \* connectionState.reconnectCount
  reconnectPeriod,  \* client.options.reconnectPeriod
  armedDelay,       \* period the pending reconnect timer was armed with (0: none)
  messageCountResetInterval, \* TRUE while the 5 s interval is set
  observedDelays,   \* history: delay waited before each reconnect attempt
  everConnected,    \* history: a 'connect' event has happened
  terminated,       \* history: end by exhaustion, or disconnect() called
  disconnectCalls,  \* history: number of disconnect() calls
  \* ---- storage and aggregator ----
  now,              \* wall clock (new Date())
  deviceLastConnected, \* Device.lastConnected per registered device
  sessions,         \* EMGData and EMSData documents, in insertion order
  handlers,         \* one in-flight 'message' handler per delivered message
  \* ---- sync service ----
  isSyncing,        \* SyncService.isSyncing
  runs,             \* one entry per syncData invocation
  storageFailures,  \* history: number of failed find/save operations so far
  forces,           \* one entry per forceSyncRecords invocation
  \* ---- frame decoder ----
  frame,            \* the Buffer handed to parseDeviceData
  decoded,          \* what the call returned or threw ("pending" before it)
  \* ---- simulated Bluetooth service ----
  isScanning,       \* connectionState.isScanning
  pendingDiscoveries, \* discovery timeouts of startScanning that have not fired
  connectedDevices, \* keys of connectionState.connectedDevices
  dataIntervals,    \* keys of connectionState.dataIntervals (live emission timers)
  btMessageCountResetInterval, \* TRUE while the service's 5 s interval is set
  connects,         \* one entry per connectToDevice call, in call order
  disconnectCalled, \* history: client.disconnect() has been called
  \* ---- server process ----
  syncInterval,     \* TRUE while syncService.syncInterval holds a timer
  syncTimers,       \* number of live interval timers calling syncData()
  httpServer,       \* "starting", "listening", "closing" or "closed"
  closeCallbacks,   \* callbacks of server.close() not yet called
  dbConnection,     \* "open", "closing" or "closed"
  dbCallbacks,      \* callbacks of mongoose.connection.close() not yet called
  forceTimers,      \* forced-exit timeouts that are set
  shutdownCalls,    \* history: number of gracefulShutdown() calls
  exitCode,         \* Undefined while the process runs, then its exit code
  \* ---- Bluetooth peripherals (noble) ----
  peripherals,      \* per peripheral: the connectToDevice call in progress,
                    \* connectionState of the peripheral, its reconnect timer
  \* ---- configuration ----
  brokerUrl,        \* process.env.MQTT_BROKER_URL
  \* ---- authentication ----
  requests,         \* the forgot-password requests, in order of arrival
  \* ---- observation of the cloud calls ----
  pushLog,          \* history: the length of each record as the run in
                    \* progress fetched it, and as its latest cloud call sent it
  \* ---- REST controllers ----
  devices,          \* Device collection, in order of creation
  patients,         \* Patient collection
  emgData,          \* EMGData documents created by postEMGData
  res               \* the response to the latest request

connVars == <<clientState, isConnected, reconnectCount, reconnectPeriod,
              armedDelay, messageCountResetInterval, observedDelays,
              everConnected, terminated, disconnectCalls>>

ingestVars == <<now, deviceLastConnected, handlers>>

syncVars == <<isSyncing, runs, storageFailures>>

forceVars == <<forces>>

decodeVars == <<frame, decoded>>

btVars == <<isScanning, pendingDiscoveries, connectedDevices, dataIntervals,
            btMessageCountResetInterval, connects, disconnectCalled>>

\* the variables of the services modelled after the aggregator and the sync
\* service
procVars == <<syncInterval, syncTimers, httpServer, closeCallbacks,
              dbConnection, dbCallbacks, forceTimers, shutdownCalls, exitCode>>

ctlVars == <<devices, patients, emgData, res>>

restVars == <<btVars, procVars, peripherals, brokerUrl, requests, pushLog,
              ctlVars>>

vars == <<connVars, ingestVars, sessions, syncVars, forceVars, decodeVars,
          restVars>>

Min(a, b) == IF a < b THEN a ELSE b

RECURSIVE Pow2(_)
\* Math.pow(2, n) for a non-negative integer n
Pow2(n) == IF n = 0 THEN 1 ELSE 2 * Pow2(n - 1)

(***************************************************************************)
(* MQTT connection supervisor                                              *)
(***************************************************************************)
\* the backoff without its ceiling
newDelayNoCap(count) == reconnectDelay * Pow2(count)

\* a backoff that grows linearly
newDelayLinear(count) == Min(reconnectDelay * (count + 1), maxReconnectDelay)

\* the delay computed by the 'reconnect' handler for the count it has just
\* incremented to
newDelay(count) == Min(reconnectDelay * Pow2(count), maxReconnectDelay)

\* the values of process.env.MQTT_BROKER_URL that !value takes as missing:
\* the variable is not set, or set to the empty string
NoUrls == {"undefined", ""}

ConfiguredUrl == "mqtt://broker:1883"

BrokerUrls == NoUrls \cup {ConfiguredUrl}

\* the module has been loaded, setupMqttClient has not been called
ConnUnset ==
  /\ clientState = "unset"
  /\ isConnected = FALSE
  /\ reconnectCount = 0
  /\ reconnectPeriod = 0
  /\ armedDelay = 0
  /\ messageCountResetInterval = FALSE
  /\ observedDelays = <<>>
  /\ everConnected = FALSE
  /\ terminated = FALSE
  /\ disconnectCalls = 0

\* setupMqttClient without the test of the broker URL
setupMqttClientNoCheck ==
  /\ clientState = "unset"
  /\ clientState' = "connecting"
  /\ reconnectPeriod' = reconnectDelay
  /\ messageCountResetInterval' = TRUE
  /\ UNCHANGED <<isConnected, reconnectCount, armedDelay, observedDelays,
                 everConnected, terminated, disconnectCalls>>

\* setupMqttClient(): without a broker URL it warns and returns null;
\* otherwise it calls mqtt.connect, sets the message count interval,
\* registers the handlers and returns the client
setupMqttClient ==
  /\ clientState = "unset"
  /\ IF brokerUrl \in NoUrls
       THEN /\ clientState' = "absent"
            /\ UNCHANGED <<reconnectPeriod, messageCountResetInterval>>
       ELSE /\ clientState' = "connecting"
            /\ reconnectPeriod' = reconnectDelay
            /\ messageCountResetInterval' = TRUE
  /\ UNCHANGED <<isConnected, reconnectCount, armedDelay, observedDelays,
                 everConnected, terminated, disconnectCalls>>

\* the state setupMqttClient() leaves with a configured broker URL
ConnInit ==
  /\ clientState = "connecting"
  /\ isConnected = FALSE
  /\ reconnectCount = 0
  /\ reconnectPeriod = reconnectDelay
  /\ armedDelay = 0
  /\ messageCountResetInterval = TRUE
  /\ observedDelays = <<>>
  /\ everConnected = FALSE
  /\ terminated = FALSE
  /\ disconnectCalls = 0

\* client.on("connect")
OnConnect ==
  /\ clientState = "connecting"
  /\ clientState' = "connected"
  /\ isConnected' = TRUE
  /\ reconnectCount' = 0
  /\ everConnected' = TRUE
  /\ UNCHANGED <<reconnectPeriod, armedDelay, messageCountResetInterval,
                 observedDelays, terminated, disconnectCalls>>

\* client.on("disconnect"): the broker sent a DISCONNECT packet
OnDisconnect ==
  /\ clientState = "connected"
  /\ isConnected
  /\ isConnected' = FALSE
  /\ UNCHANGED <<clientState, reconnectCount, reconnectPeriod, armedDelay,
                 messageCountResetInterval, observedDelays, everConnected,
                 terminated, disconnectCalls>>

\* client.on("close") without a preceding error: the stream closed (broker
\* dropped the connection, or the connect attempt timed out); the client
\* arms its reconnect timer with the current options.reconnectPeriod
OnClose ==
  /\ clientState \in {"connecting", "connected"}
  /\ clientState' = "offline"
  /\ isConnected' = FALSE
  /\ armedDelay' = reconnectPeriod
  /\ UNCHANGED <<reconnectCount, reconnectPeriod, messageCountResetInterval,
                 observedDelays, everConnected, terminated, disconnectCalls>>

\* client.on("error") followed by the close of the failed stream
OnError ==
  /\ clientState \in {"connecting", "connected"}
  /\ isConnected' = FALSE
  /\ IF reconnectCount >= maxReconnectAttempts
       THEN /\ clientState' = "ended"
            /\ messageCountResetInterval' = FALSE
            /\ terminated' = TRUE
            /\ armedDelay' = 0
       ELSE /\ clientState' = "offline"
            /\ armedDelay' = reconnectPeriod
            /\ UNCHANGED <<messageCountResetInterval, terminated>>
  /\ UNCHANGED <<reconnectCount, reconnectPeriod, observedDelays,
                 everConnected, disconnectCalls>>

\* the reconnect timer fires: client.on("reconnect"), then a new connect
\* attempt starts
OnReconnect ==
  /\ clientState = "offline"
  /\ Len(observedDelays) < MaxReconnects
  /\ observedDelays' = Append(observedDelays, armedDelay)
  /\ reconnectCount' = reconnectCount + 1
  /\ reconnectPeriod' = newDelay(reconnectCount + 1)
  /\ armedDelay' = 0
  /\ clientState' = "connecting"
  /\ UNCHANGED <<isConnected, messageCountResetInterval, everConnected,
                 terminated, disconnectCalls>>

\* client.disconnect()
ClientDisconnect ==
  /\ disconnectCalls < MaxDisconnectCalls
  /\ disconnectCalls' = disconnectCalls + 1
  /\ messageCountResetInterval' = FALSE
  /\ terminated' = (terminated \/ clientState \in {"connected", "offline"})
  /\ IF clientState = "connected"
       THEN /\ clientState' = "ended"
            /\ isConnected' = FALSE
       ELSE UNCHANGED <<clientState, isConnected>>
  /\ UNCHANGED <<reconnectCount, reconnectPeriod, armedDelay, observedDelays,
                 everConnected>>

\* client.getStatus()
getStatus == [isConnected |-> isConnected, reconnectCount |-> reconnectCount]

ConnNext ==
  /\ \/ OnConnect
     \/ OnDisconnect
     \/ OnClose
     \/ OnError
     \/ OnReconnect
     \/ ClientDisconnect
  /\ UNCHANGED <<ingestVars, sessions, syncVars, forceVars, decodeVars, restVars>>

(***************************************************************************)
(* Wireless frame decoder: parseDeviceData                                 *)
(***************************************************************************)
\* an expression evaluates to a value or throws
Value(v) == [raised |-> FALSE, value |-> v]

Throw(name) == [raised |-> TRUE, error |-> name]

Null == [type |-> "null"]

\* data[i] of a Buffer: undefined (-1) past the end
Undefined == 0 - 1

byteAt(data, i) == IF i < Len(data) THEN data[i + 1] ELSE Undefined

\* Buffer.readUInt32LE(offset): RangeError unless offset + 4 <= length
readUInt32LE(data, offset) ==
  IF offset + 4 > Len(data)
    THEN Throw("RangeError")
    ELSE Value(data[offset + 1] + 256 * data[offset + 2]
               + 65536 * data[offset + 3] + 16777216 * data[offset + 4])

\* Buffer.readBigUInt64LE(offset): RangeError unless offset + 8 <= length;
\* the result is a BigInt, kept here as its eight bytes
readBigUInt64LE(data, offset) ==
  IF offset + 8 > Len(data)
    THEN Throw("RangeError")
    ELSE Value([bigint |-> SubSeq(data, offset + 1, offset + 8)])

\* Buffer.readInt16LE(offset), two's complement
readInt16LE(data, offset) ==
  LET u == data[offset + 1] + 256 * data[offset + 2]
  IN IF u >= 32768 THEN u - 65536 ELSE u

\* new Date(value) converts its argument with ToNumber, which throws a
\* TypeError for a BigInt
newDate(value) ==
  IF DOMAIN value = {"bigint"} THEN Throw("TypeError") ELSE Value(value)

DecimalDigits == <<"0", "1", "2", "3", "4", "5", "6", "7", "8", "9">>

RECURSIVE toString(_)
\* Number.prototype.toString(): the decimal digits of n
toString(n) ==
  IF n < 10
    THEN <<DecimalDigits[n + 1]>>
    ELSE Append(toString(n \div 10), DecimalDigits[(n % 10) + 1])

\* the body of parseDeviceData's try block
tryParse(data) ==
  LET dataType == byteAt(data, 0)
      sessionId == readUInt32LE(data, 1)
      bigint == readBigUInt64LE(data, 5)
      timestamp == newDate(bigint.value)
  IN IF dataType \in {1, 2}
       THEN IF sessionId.raised THEN sessionId
            ELSE IF bigint.raised THEN bigint
            ELSE IF timestamp.raised THEN timestamp
            ELSE IF dataType = 1
              THEN Value([type |-> "emg",
                          sessionId |-> toString(sessionId.value),
                          dataPoints |->
                            [k \in 1 .. ((Len(data) - HeaderLen) \div 2) |->
                               [timestamp |-> timestamp.value,
                                value |-> readInt16LE(data, HeaderLen + 2 * (k - 1))]]])
              ELSE Value([type |-> "ems",
                          sessionId |-> toString(sessionId.value),
                          intensity |-> byteAt(data, HeaderLen),
                          frequency |-> byteAt(data, HeaderLen + 1),
                          pulseWidth |-> byteAt(data, HeaderLen + 2),
                          dataPoints |->
                            <<[timestamp |-> timestamp.value,
                               response |-> SubSeq(data, HeaderLen + 4, Len(data))]>>])
       ELSE Value(Null)

\* parseDeviceData without its catch clause
parseDeviceDataNoCatch(data) ==
  LET r == tryParse(data) IN IF r.raised THEN r ELSE r.value

\* parseDeviceData: the catch clause logs and returns null
parseDeviceData(data) ==
  LET r == tryParse(data) IN IF r.raised THEN Null ELSE r.value

\* the frame of the given length whose first byte is the discriminator
frameOf(disc, len) == [k \in 1 .. len |-> IF k = 1 THEN disc ELSE k - 1]

Frames == {frameOf(disc, len) : disc \in Discriminators, len \in 0 .. MaxFrameLen}

(***************************************************************************)
(* Storage: EMGData / EMSData documents                                    *)
(***************************************************************************)
EventIds == 1 .. MaxEvents

\* a stored session document; endTime = 0 stands for "not set"
newSessionDoc(type, device, sessionId, dataPoints, startTime) ==
  [kind |-> type, device |-> device, sessionId |-> sessionId,
   dataPoints |-> dataPoints, startTime |-> startTime, endTime |-> 0,
   synced |-> FALSE, pushes |-> 0]

\* Model.findOne({sessionId, device}): id of the first matching document in
\* natural order, 0 when there is none
findOne(type, device, sessionId) ==
  LET hits == {i \in 1 .. Len(sessions) :
                 /\ sessions[i].kind = type
                 /\ sessions[i].device = device
                 /\ sessions[i].sessionId = sessionId}
  IN IF hits = {} THEN 0 ELSE CHOOSE i \in hits : \A j \in hits : i <= j

(***************************************************************************)
(* Session aggregator: client.on("message") -> handleDeviceData            *)
(***************************************************************************)
idleHandler ==
  [pc |-> "none", source |-> "mqtt", device |-> "D1", raw |-> <<>>,
   type |-> "emg", sessionId |-> "S1", dataPoints |-> <<>>, timestamp |-> 0,
   stamp |-> 0, existing |-> 0, failed |-> FALSE, failedAt |-> "none"]

\* the data points of message e: n samples, each tagged with e
samplesOf(e, n) == [k \in 1 .. n |-> e]

IngestInit ==
  /\ now = 0
  /\ deviceLastConnected = [d \in RegisteredDevices |-> 0]
  /\ handlers = [e \in EventIds |-> idleHandler]

\* a message arrives on devices/{d}/data; the handler notes the time of
\* arrival (lastMessageTime) and runs up to its first await (Device.findOne)
OnMessage(e, d, t, s, n) ==
  /\ handlers[e].pc = "none"
  /\ IF e = 1 THEN TRUE ELSE handlers[e - 1].pc # "none"
  /\ now' = now + 1
  /\ handlers' = [handlers EXCEPT ![e] =
                    [idleHandler EXCEPT
                       !.pc = "findDevice", !.source = "mqtt", !.device = d,
                       !.type = t, !.sessionId = s,
                       !.dataPoints = samplesOf(e, n), !.timestamp = now + 1]]
  /\ UNCHANGED <<deviceLastConnected, sessions>>

\* a characteristic of device d notifies with a frame; the Bluetooth
\* handleDeviceData notes the time of arrival and runs up to its first await
OnFrame(e, d, data) ==
  /\ handlers[e].pc = "none"
  /\ IF e = 1 THEN TRUE ELSE handlers[e - 1].pc # "none"
  /\ now' = now + 1
  /\ handlers' = [handlers EXCEPT ![e] =
                    [idleHandler EXCEPT
                       !.pc = "findDevice", !.source = "bluetooth",
                       !.device = d, !.raw = data, !.timestamp = now + 1]]
  /\ UNCHANGED <<deviceLastConnected, sessions>>

\* the lookup of the device without the return that drops an event whose
\* device is not in storage
FindDeviceNoReturn(e) ==
  /\ handlers[e].pc = "findDevice"
  /\ LET h == handlers[e]
         parsedData == parseDeviceData(h.raw)
     IN handlers' = [handlers EXCEPT ![e] =
          IF h.source = "mqtt"
            THEN [h EXCEPT !.pc = "saveDevice", !.stamp = now]
          ELSE IF parsedData = Null
            THEN [h EXCEPT !.pc = "done"]
          ELSE [h EXCEPT !.pc = "saveDevice", !.stamp = now,
                         !.type = parsedData.type,
                         !.sessionId = parsedData.sessionId,
                         !.dataPoints = [k \in 1 .. Len(parsedData.dataPoints) |-> e]]]
  /\ UNCHANGED <<now, deviceLastConnected, sessions>>

\* Device.findOne({serialNumber}) resolves; an unknown device drops the
\* event and so does a frame that parseDeviceData decodes to null; otherwise
\* handleDeviceData / processEMGData / processEMSData sets
\* device.lastConnected and awaits device.save()
FindDevice(e) ==
  /\ handlers[e].pc = "findDevice"
  /\ LET h == handlers[e]
         parsedData == parseDeviceData(h.raw)
     IN handlers' = [handlers EXCEPT ![e] =
          IF h.device \notin RegisteredDevices
            THEN [h EXCEPT !.pc = "done"]
          ELSE IF h.source = "mqtt"
            THEN [h EXCEPT !.pc = "saveDevice", !.stamp = now]
          ELSE IF parsedData = Null
            THEN [h EXCEPT !.pc = "done"]
          ELSE [h EXCEPT !.pc = "saveDevice", !.stamp = now,
                         !.type = parsedData.type,
                         !.sessionId = parsedData.sessionId,
                         !.dataPoints = [k \in 1 .. Len(parsedData.dataPoints) |-> e]]]
  /\ UNCHANGED <<now, deviceLastConnected, sessions>>

\* device.save() resolves; the handler awaits Model.findOne
SaveDevice(e) ==
  /\ handlers[e].pc = "saveDevice"
  /\ deviceLastConnected' =
       [deviceLastConnected EXCEPT ![handlers[e].device] = handlers[e].stamp]
  /\ handlers' = [handlers EXCEPT ![e].pc = "findSession"]
  /\ UNCHANGED <<now, sessions>>

\* Model.findOne({sessionId, device}) resolves, dt clock ticks after the
\* previous clock reading; the handler builds the update or the new document
\* (new Date() and the startTime default Date.now are read here) and awaits
\* the write
FindSession(e, dt) ==
  /\ handlers[e].pc = "findSession"
  /\ now' = now + dt
  /\ LET h == handlers[e]
         id == findOne(h.type, h.device, h.sessionId)
     IN handlers' = [handlers EXCEPT
                       ![e].pc = IF id # 0 THEN "update" ELSE "create",
                       ![e].existing = id,
                       ![e].stamp = now + dt]
  /\ UNCHANGED <<deviceLastConnected, sessions>>

\* an update that replaces the stored data points by the message's
UpdateSessionOverwrite(e) ==
  /\ handlers[e].pc = "update"
  /\ LET h == handlers[e]
     IN sessions' = [sessions EXCEPT
                       ![h.existing].dataPoints = h.dataPoints,
                       ![h.existing].endTime = h.stamp]
  /\ handlers' = [handlers EXCEPT ![e].pc = "done"]
  /\ UNCHANGED <<now, deviceLastConnected>>

\* an update that also marks the record as not synced
UpdateSessionResetsSync(e) ==
  /\ handlers[e].pc = "update"
  /\ LET h == handlers[e]
     IN sessions' = [sessions EXCEPT
                       ![h.existing].dataPoints = @ \o h.dataPoints,
                       ![h.existing].endTime = h.stamp,
                       ![h.existing].synced = FALSE]
  /\ handlers' = [handlers EXCEPT ![e].pc = "done"]
  /\ UNCHANGED <<now, deviceLastConnected>>

\* Model.findByIdAndUpdate(id, {$push: {dataPoints: {$each: ...}}, endTime})
UpdateSession(e) ==
  /\ handlers[e].pc = "update"
  /\ LET h == handlers[e]
     IN sessions' = [sessions EXCEPT
                       ![h.existing].dataPoints = @ \o h.dataPoints,
                       ![h.existing].endTime = h.stamp]
  /\ handlers' = [handlers EXCEPT ![e].pc = "done"]
  /\ UNCHANGED <<now, deviceLastConnected>>

\* Model.create({...syncStatus: {synced: false}})
CreateSession(e) ==
  /\ handlers[e].pc = "create"
  /\ LET h == handlers[e]
     IN sessions' = Append(sessions,
                       newSessionDoc(h.type, h.device, h.sessionId,
                                     h.dataPoints, h.stamp))
  /\ handlers' = [handlers EXCEPT ![e].pc = "done"]
  /\ UNCHANGED <<now, deviceLastConnected>>

\* a rejected storage operation after which the handler starts over
StorageFailsRetry(e) ==
  /\ handlers[e].pc \in {"findDevice", "saveDevice", "findSession", "update", "create"}
  /\ Cardinality({x \in EventIds : handlers[x].failed}) < MaxIngestFailures
  /\ handlers' = [handlers EXCEPT ![e].pc = "findDevice", ![e].failed = TRUE,
                                   ![e].failedAt = handlers[e].pc]
  /\ UNCHANGED <<now, deviceLastConnected, sessions>>

\* an awaited storage operation of the handler rejects: the catch clause of
\* handleDeviceData (of the 'message' callback for Device.findOne) logs the
\* error and the handler returns
StorageFails(e) ==
  /\ handlers[e].pc \in {"findDevice", "saveDevice", "findSession", "update", "create"}
  /\ Cardinality({x \in EventIds : handlers[x].failed}) < MaxIngestFailures
  /\ handlers' = [handlers EXCEPT ![e].pc = "done", ![e].failed = TRUE,
                                   ![e].failedAt = handlers[e].pc]
  /\ UNCHANGED <<now, deviceLastConnected, sessions>>

\* messages for any device, data type and session; storage reads answer
\* within one clock tick and no storage operation fails
IngestNext ==
  /\ \/ \E e \in EventIds, d \in DeviceIds, t \in DataTypes,
          s \in SessionIds, n \in SampleCounts : OnMessage(e, d, t, s, n)
     \/ \E e \in EventIds : FindDevice(e)
     \/ \E e \in EventIds : SaveDevice(e)
     \/ \E e \in EventIds : FindSession(e, 0)
     \/ \E e \in EventIds : UpdateSession(e)
     \/ \E e \in EventIds : CreateSession(e)
  /\ UNCHANGED <<connVars, syncVars, forceVars, decodeVars, restVars>>

\* no handler is in flight
Quiescent == \A e \in EventIds : handlers[e].pc \in {"none", "done"}

\* a message of session S1 of the registered device arrives while no handler
\* is in flight
OnMessageWhenIdle(e, n) == Quiescent /\ OnMessage(e, "D1", "emg", "S1", n)

\* EMG messages of one session, each delivered after the previous one has
\* been handled; storage reads take up to one clock tick and storage
\* operations may fail
SequentialNext ==
  /\ \/ \E e \in EventIds, n \in SampleCounts : OnMessageWhenIdle(e, n)
     \/ \E e \in EventIds : FindDevice(e)
     \/ \E e \in EventIds : SaveDevice(e)
     \/ \E e \in EventIds, dt \in Latencies : FindSession(e, dt)
     \/ \E e \in EventIds : UpdateSession(e)
     \/ \E e \in EventIds : CreateSession(e)
     \/ \E e \in EventIds : StorageFails(e)
  /\ UNCHANGED <<connVars, syncVars, forceVars, decodeVars, restVars>>

\* frames a device may send: a well-formed EMG frame, one with an unknown
\* discriminator, an EMS frame cut short within its stimulation parameters
SentFrames ==
  {frameOf(1, HeaderLen + 4), frameOf(3, HeaderLen + 4), frameOf(2, HeaderLen + 1)}

\* EMG messages and frames of one session of the registered device, handled
\* concurrently; storage reads answer within one clock tick and storage
\* operations may fail
SessionNext ==
  /\ \/ \E e \in EventIds : OnMessage(e, "D1", "emg", "S1", MaxSamples)
     \/ \E e \in EventIds, data \in SentFrames : OnFrame(e, "D1", data)
     \/ \E e \in EventIds : FindDevice(e)
     \/ \E e \in EventIds : SaveDevice(e)
     \/ \E e \in EventIds : FindSession(e, 0)
     \/ \E e \in EventIds : UpdateSession(e)
     \/ \E e \in EventIds : CreateSession(e)
     \/ \E e \in EventIds : StorageFails(e)
  /\ UNCHANGED <<connVars, syncVars, forceVars, decodeVars, restVars>>

\* messages and frames arrive from devices some of which are not in storage
UnknownNext ==
  /\ \/ \E e \in EventIds, d \in DeviceIds :
          OnMessage(e, d, "emg", "S1", MaxSamples)
     \/ \E e \in EventIds, d \in DeviceIds :
          OnFrame(e, d, frameOf(1, HeaderLen + 4))
     \/ \E e \in EventIds : FindDevice(e)
     \/ \E e \in EventIds : SaveDevice(e)
     \/ \E e \in EventIds : FindSession(e, 0)
     \/ \E e \in EventIds : UpdateSession(e)
     \/ \E e \in EventIds : CreateSession(e)
     \/ \E e \in EventIds : StorageFails(e)
  /\ UNCHANGED <<connVars, syncVars, forceVars, decodeVars, restVars>>

(***************************************************************************)
(* Sync service: SyncService.syncData, syncEMGRecord, syncEMSRecord        *)
(***************************************************************************)
CallIds == 1 .. MaxSyncCalls

idleRun ==
  [pc |-> "none", kind |-> "emg", emgBatch |-> {}, emsBatch |-> {},
   pos |-> 0, attempted |-> {}, failed |-> {}, fetched |-> {}, syncedAt |-> 0]

\* documents whose save the storage layer may reject
FlakyIds == {1, 2, 3, BatchLimit, BatchLimit + 1}

\* Model.find({'syncStatus.synced': false}) without the limit
findUnsyncedNoLimit(type, n) ==
  {i \in 1 .. Len(sessions) : sessions[i].kind = type /\ ~sessions[i].synced}

\* Model.find({'syncStatus.synced': false}).limit(n): the ids of the first n
\* documents of `type` whose syncStatus.synced is false; a result array is
\* held as the set of its ids and is iterated in natural (ascending id) order
findUnsynced(type, n) ==
  LET pending == {i \in 1 .. Len(sessions) :
                    sessions[i].kind = type /\ ~sessions[i].synced}
  IN {i \in pending : Cardinality({j \in pending : j < i}) < n}

\* the batch a run is iterating over
batchOf(r) == IF r.kind = "emg" THEN r.emgBatch ELSE r.emsBatch

\* the run after the record r.pos has been handled (r.pos = 0: after the
\* find): next record of the batch, then the EMS phase, then the end
advance(r) ==
  LET rest == {i \in batchOf(r) : i > r.pos}
  IN IF rest # {}
       THEN [r EXCEPT !.pc = "push", !.syncedAt = 0,
                      !.pos = CHOOSE i \in rest : \A j \in rest : i <= j]
     ELSE IF r.kind = "emg"
       THEN [r EXCEPT !.pc = "find", !.kind = "ems", !.pos = 0, !.syncedAt = 0]
     ELSE [r EXCEPT !.pc = "done", !.pos = 0, !.syncedAt = 0]

SyncInit ==
  /\ isSyncing = FALSE
  /\ runs = [c \in CallIds |-> idleRun]
  /\ storageFailures = 0

\* syncData() without the isSyncing check
syncDataNoGuard(c) ==
  /\ runs[c].pc = "none"
  /\ IF c = 1 THEN TRUE ELSE runs[c - 1].pc # "none"
  /\ isSyncing' = TRUE
  /\ runs' = [runs EXCEPT ![c].pc = "find"]
  /\ UNCHANGED <<sessions, storageFailures>>

\* syncData() is invoked by a timer tick or a direct call; it runs up to its
\* first await (EMGData.find)
syncData(c) ==
  /\ runs[c].pc = "none"
  /\ IF c = 1 THEN TRUE ELSE runs[c - 1].pc # "none"
  /\ IF isSyncing
       THEN /\ runs' = [runs EXCEPT ![c].pc = "skipped"]
            /\ UNCHANGED isSyncing
       ELSE /\ isSyncing' = TRUE
            /\ runs' = [runs EXCEPT ![c].pc = "find"]
  /\ UNCHANGED <<sessions, storageFailures>>

\* Model.find(...).limit(100) resolves with the pending documents
FindPending(c) ==
  /\ runs[c].pc = "find"
  /\ LET r == runs[c]
         batch == findUnsynced(r.kind, BatchLimit)
         r0 == [r EXCEPT !.fetched = @ \cup {r.kind}]
         r1 == IF r.kind = "emg" THEN [r0 EXCEPT !.emgBatch = batch]
                                 ELSE [r0 EXCEPT !.emsBatch = batch]
     IN /\ runs' = [runs EXCEPT ![c] = advance(r1)]
        /\ isSyncing' = IF advance(r1).pc = "done" THEN FALSE ELSE isSyncing
  /\ UNCHANGED <<sessions, storageFailures>>

\* a rejected Model.find that ends the run without the finally block
FindFailsNoFinally(c) ==
  /\ runs[c].pc = "find"
  /\ storageFailures < MaxStorageFailures
  /\ storageFailures' = storageFailures + 1
  /\ runs' = [runs EXCEPT ![c].pc = "done", ![c].pos = 0]
  /\ UNCHANGED <<isSyncing, sessions>>

\* Model.find rejects: caught by syncData, the finally block ends the run
FindFails(c) ==
  /\ runs[c].pc = "find"
  /\ storageFailures < MaxStorageFailures
  /\ storageFailures' = storageFailures + 1
  /\ runs' = [runs EXCEPT ![c].pc = "done", ![c].pos = 0]
  /\ isSyncing' = FALSE
  /\ UNCHANGED sessions

\* syncEMGRecord / syncEMSRecord: the simulated cloud call resolves, the
\* record is marked synced in memory and record.save() is awaited
PushRecord(c) ==
  /\ runs[c].pc = "push"
  /\ LET id == runs[c].pos
     IN sessions' = [sessions EXCEPT ![id].pushes = @ + 1]
  /\ runs' = [runs EXCEPT ![c].pc = "save",
                           ![c].attempted = @ \cup {runs[c].pos},
                           ![c].syncedAt = now]
  /\ UNCHANGED <<isSyncing, storageFailures>>

\* record.save() that stores nothing
SaveRecordNoMark(c) ==
  /\ runs[c].pc = "save"
  /\ runs' = [runs EXCEPT ![c] = advance(runs[c])]
  /\ isSyncing' = IF advance(runs[c]).pc = "done" THEN FALSE ELSE isSyncing
  /\ UNCHANGED <<sessions, storageFailures>>

\* record.save() resolves: syncStatus is stored
SaveRecord(c) ==
  /\ runs[c].pc = "save"
  /\ LET id == runs[c].pos
     IN sessions' = [sessions EXCEPT ![id].synced = TRUE]
  /\ runs' = [runs EXCEPT ![c] = advance(runs[c])]
  /\ isSyncing' = IF advance(runs[c]).pc = "done" THEN FALSE ELSE isSyncing
  /\ UNCHANGED storageFailures

\* a rejected save that ends the whole run
SaveFailsAbort(c) ==
  /\ runs[c].pc = "save"
  /\ runs[c].pos \in FlakyIds
  /\ storageFailures < MaxStorageFailures
  /\ storageFailures' = storageFailures + 1
  /\ runs' = [runs EXCEPT ![c].pc = "done", ![c].pos = 0,
                           ![c].failed = @ \cup {runs[c].pos}]
  /\ isSyncing' = FALSE
  /\ UNCHANGED sessions

\* a rejected save after which the same record is pushed again
SaveFailsRetry(c) ==
  /\ runs[c].pc = "save"
  /\ runs[c].pos \in FlakyIds
  /\ storageFailures < MaxStorageFailures
  /\ storageFailures' = storageFailures + 1
  /\ runs' = [runs EXCEPT ![c].pc = "push",
                           ![c].failed = @ \cup {runs[c].pos}]
  /\ UNCHANGED <<isSyncing, sessions>>

\* record.save() rejects: syncEMGRecord returns false, the loop goes on
SaveFails(c) ==
  /\ runs[c].pc = "save"
  /\ runs[c].pos \in FlakyIds
  /\ storageFailures < MaxStorageFailures
  /\ storageFailures' = storageFailures + 1
  /\ LET r == [runs[c] EXCEPT !.failed = @ \cup {runs[c].pos}]
     IN /\ runs' = [runs EXCEPT ![c] = advance(r)]
        /\ isSyncing' = IF advance(r).pc = "done" THEN FALSE ELSE isSyncing
  /\ UNCHANGED sessions

SyncNext ==
  /\ \/ \E c \in CallIds : syncData(c)
     \/ \E c \in CallIds : FindPending(c)
     \/ \E c \in CallIds : FindFails(c)
     \/ \E c \in CallIds : PushRecord(c)
     \/ \E c \in CallIds : SaveRecord(c)
     \/ \E c \in CallIds : SaveFails(c)
  /\ UNCHANGED <<connVars, ingestVars, forceVars, decodeVars, restVars>>

\* documents whose record.save() is rejected every time (validation fails:
\* a required field such as patient is missing): more than one batch of EMG
\* documents, the first ones in natural order
RejectedIds == 1 .. (BatchLimit + 1)

\* the cloud call of syncEMGRecord / syncEMSRecord, not counted in the record
PushRecordUncounted(c) ==
  /\ runs[c].pc = "push"
  /\ runs' = [runs EXCEPT ![c].pc = "save",
                           ![c].attempted = @ \cup {runs[c].pos},
                           ![c].syncedAt = now]
  /\ UNCHANGED <<isSyncing, sessions, storageFailures>>

\* record.save() resolves for a document that passes validation
SaveValidRecord(c) ==
  /\ runs[c].pos \notin RejectedIds
  /\ SaveRecord(c)

\* record.save() rejects for a document that fails validation: the record
\* sync returns false, the loop goes on
SaveRejected(c) ==
  /\ runs[c].pc = "save"
  /\ runs[c].pos \in RejectedIds
  /\ LET r == [runs[c] EXCEPT !.failed = @ \cup {runs[c].pos}]
     IN /\ runs' = [runs EXCEPT ![c] = advance(r)]
        /\ isSyncing' = IF advance(r).pc = "done" THEN FALSE ELSE isSyncing
  /\ UNCHANGED <<sessions, storageFailures>>

\* the calls followed so far have all returned: the following ones are
\* followed in their place
ForgetReturnedCalls ==
  /\ \A c \in CallIds : runs[c].pc \in {"done", "skipped"}
  /\ runs' = [c \in CallIds |-> idleRun]
  /\ UNCHANGED <<isSyncing, sessions, storageFailures>>

\* the timer ticks for ever and the awaits of a run settle
RecurringTick == \E c \in CallIds : syncData(c)

RecurringRunSteps ==
  \E c \in CallIds :
    \/ FindPending(c)
    \/ PushRecordUncounted(c)
    \/ SaveValidRecord(c)
    \/ SaveRejected(c)

\* sync runs that keep occurring against documents some of which are
\* rejected every time
RecurringNext ==
  /\ \/ RecurringTick
     \/ RecurringRunSteps
     \/ ForgetReturnedCalls
  /\ UNCHANGED <<connVars, ingestVars, forceVars, decodeVars, restVars>>

RecurringFairness ==
  /\ WF_<<sessions, syncVars>>(RecurringTick)
  /\ WF_<<sessions, syncVars>>(RecurringRunSteps)
  /\ WF_<<sessions, syncVars>>(ForgetReturnedCalls)

\* an await of the run in progress settles
SyncRunSteps ==
  \E c \in CallIds :
    \/ FindPending(c)
    \/ FindFails(c)
    \/ PushRecord(c)
    \/ SaveRecord(c)
    \/ SaveFails(c)

\* every await of a run settles: the query, the simulated cloud call and the
\* save resolve or reject
SyncFairness == WF_<<sessions, syncVars>>(SyncRunSteps)

(***************************************************************************)
(* Sync service: SyncService.forceSyncRecords                              *)
(***************************************************************************)
ForceIds == 1 .. MaxForceCalls

\* the recordIds arguments forceSyncRecords is called with
ForceRequests ==
  {{1, 2}, {2, SmallEMG + 1, SmallEMG + SmallEMS + 1}}

\* attempts and failedIds are history: the records handed to the sync
\* function, in order, and those whose save was rejected; result is the
\* returned summary
idleForce ==
  [pc |-> "none", kind |-> "emg", recordIds |-> {}, records |-> {},
   pos |-> 0, successCount |-> 0, attempts |-> <<>>, failedIds |-> {},
   result |-> [total |-> 0, success |-> 0, failed |-> 0]]

\* {total, success, failed} as forceSyncRecords builds it
summaryOf(f) ==
  [total |-> Cardinality(f.records), success |-> f.successCount,
   failed |-> Cardinality(f.records) - f.successCount]

\* the call after the record f.pos has been handled (f.pos = 0: after the
\* find): next record of the result, then the return
advanceForce(f) ==
  LET rest == {i \in f.records : i > f.pos}
  IN IF rest # {}
       THEN [f EXCEPT !.pc = "push",
                      !.pos = CHOOSE i \in rest : \A j \in rest : i <= j]
       ELSE [f EXCEPT !.pc = "done", !.pos = 0, !.result = summaryOf(f)]

ForceInit == forces = [f \in ForceIds |-> idleForce]

\* forceSyncRecords that returns at once while a sync run is in progress
forceSyncRecordsGuarded(f, recordIds, dataType) ==
  /\ forces[f].pc = "none"
  /\ IF f = 1 THEN TRUE ELSE forces[f - 1].pc # "none"
  /\ forces' = [forces EXCEPT ![f].pc = IF isSyncing THEN "skipped" ELSE "find",
                               ![f].kind = dataType,
                               ![f].recordIds = recordIds]
  /\ UNCHANGED <<sessions, syncVars>>

\* forceSyncRecords(recordIds, dataType) is called; it runs up to its first
\* await (Model.find)
forceSyncRecords(f, recordIds, dataType) ==
  /\ forces[f].pc = "none"
  /\ IF f = 1 THEN TRUE ELSE forces[f - 1].pc # "none"
  /\ forces' = [forces EXCEPT ![f].pc = "find", ![f].kind = dataType,
                               ![f].recordIds = recordIds]
  /\ UNCHANGED <<sessions, syncVars>>

\* Model.find({_id: {$in: recordIds}}) resolves with the documents of the
\* model that have one of the ids, synced or not
ForceFind(f) ==
  /\ forces[f].pc = "find"
  /\ LET found == {i \in forces[f].recordIds :
                     /\ i <= Len(sessions)
                     /\ sessions[i].kind = forces[f].kind}
     IN forces' = [forces EXCEPT
                     ![f] = advanceForce([forces[f] EXCEPT !.records = found])]
  /\ UNCHANGED <<sessions, syncVars>>

\* Model.find rejects: forceSyncRecords logs and rethrows
ForceFindFails(f) ==
  /\ forces[f].pc = "find"
  /\ storageFailures < MaxStorageFailures
  /\ storageFailures' = storageFailures + 1
  /\ forces' = [forces EXCEPT ![f].pc = "thrown"]
  /\ UNCHANGED <<sessions, isSyncing, runs>>

\* syncEMGRecord / syncEMSRecord called by forceSyncRecords: the simulated
\* cloud call resolves, record.save() is awaited
ForcePush(f) ==
  /\ forces[f].pc = "push"
  /\ sessions' = [sessions EXCEPT ![forces[f].pos].pushes = @ + 1]
  /\ forces' = [forces EXCEPT ![f].pc = "save",
                               ![f].attempts = Append(@, forces[f].pos)]
  /\ UNCHANGED syncVars

\* record.save() resolves: syncStatus is stored, success is counted
ForceSave(f) ==
  /\ forces[f].pc = "save"
  /\ sessions' = [sessions EXCEPT ![forces[f].pos].synced = TRUE]
  /\ forces' = [forces EXCEPT
                  ![f] = advanceForce([forces[f] EXCEPT !.successCount = @ + 1])]
  /\ UNCHANGED syncVars

\* a rejected save that ends the loop and returns the summary at once
ForceSaveFailsAbort(f) ==
  /\ forces[f].pc = "save"
  /\ storageFailures < MaxStorageFailures
  /\ storageFailures' = storageFailures + 1
  /\ forces' = [forces EXCEPT
                  ![f].pc = "done", ![f].pos = 0,
                  ![f].failedIds = @ \cup {forces[f].pos},
                  ![f].result = summaryOf(forces[f])]
  /\ UNCHANGED <<sessions, isSyncing, runs>>

\* record.save() rejects: the sync function returns false, the loop goes on
ForceSaveFails(f) ==
  /\ forces[f].pc = "save"
  /\ storageFailures < MaxStorageFailures
  /\ storageFailures' = storageFailures + 1
  /\ forces' = [forces EXCEPT
                  ![f] = advanceForce([forces[f] EXCEPT
                                         !.failedIds = @ \cup {forces[f].pos}])]
  /\ UNCHANGED <<sessions, isSyncing, runs>>

\* the steps of forceSyncRecords
ForceSteps ==
  \/ \E f \in ForceIds, recordIds \in ForceRequests, dataType \in DataTypes :
        forceSyncRecords(f, recordIds, dataType)
  \/ \E f \in ForceIds : ForceFind(f)
  \/ \E f \in ForceIds : ForceFindFails(f)
  \/ \E f \in ForceIds : ForcePush(f)
  \/ \E f \in ForceIds : ForceSave(f)
  \/ \E f \in ForceIds : ForceSaveFails(f)

(***************************************************************************)
(* Aggregator, sync runs and forceSyncRecords side by side                 *)
(***************************************************************************)
\* the steps of the handlers of one session's EMG messages, one message
\* being delivered after the other
CoreIngest ==
  /\ \/ \E e \in EventIds : OnMessageWhenIdle(e, MaxSamples)
     \/ \E e \in EventIds : FindDevice(e)
     \/ \E e \in EventIds : SaveDevice(e)
     \/ \E e \in EventIds : FindSession(e, 0)
     \/ \E e \in EventIds : UpdateSession(e)
     \/ \E e \in EventIds : CreateSession(e)
  /\ UNCHANGED <<syncVars, forceVars>>

\* the steps of the periodic sync runs
CoreSync ==
  /\ \/ \E c \in CallIds : syncData(c)
     \/ \E c \in CallIds : FindPending(c)
     \/ \E c \in CallIds : PushRecord(c)
     \/ \E c \in CallIds : SaveRecord(c)
     \/ \E c \in CallIds : SaveFails(c)
  /\ UNCHANGED <<ingestVars, forceVars>>

\* the steps of forceSyncRecords
CoreForce == ForceSteps /\ UNCHANGED ingestVars

CoreNext ==
  /\ CoreIngest \/ CoreSync \/ CoreForce
  /\ UNCHANGED <<connVars, decodeVars, restVars>>

(***************************************************************************)
(* Appends to an existing record while sync runs go on                     *)
(***************************************************************************)
\* the steps of concurrent handlers of messages of a session that has a record
AppendIngest ==
  /\ \/ \E e \in EventIds : OnMessage(e, "D1", "emg", "S1", MaxSamples)
     \/ \E e \in EventIds : FindDevice(e)
     \/ \E e \in EventIds : SaveDevice(e)
     \/ \E e \in EventIds : FindSession(e, 0)
     \/ \E e \in EventIds : UpdateSession(e)
  /\ UNCHANGED <<syncVars, forceVars>>

\* the steps of sync runs whose storage operations succeed
AppendSync ==
  /\ \/ \E c \in CallIds : syncData(c)
     \/ \E c \in CallIds : FindPending(c)
     \/ \E c \in CallIds : PushRecord(c)
     \/ \E c \in CallIds : SaveRecord(c)
  /\ UNCHANGED <<ingestVars, forceVars>>

AppendNext ==
  /\ AppendIngest \/ AppendSync
  /\ UNCHANGED <<connVars, decodeVars, restVars>>

(***************************************************************************)
(* What the cloud calls of the sync runs send                              *)
(***************************************************************************)
PushLogInit == pushLog = [snapshot |-> <<>>, covered |-> <<>>]

\* number of data points of record i that its latest cloud call sent
coveredOf(i) == IF i \in DOMAIN pushLog.covered THEN pushLog.covered[i] ELSE 0

\* Model.find resolves: the run holds the documents as they are stored now
FindPendingLogged(c) ==
  /\ FindPending(c)
  /\ pushLog' = [pushLog EXCEPT !.snapshot =
                   [i \in findUnsynced(runs[c].kind, BatchLimit) |->
                      Len(sessions[i].dataPoints)]]

\* the cloud call of syncEMGRecord(record) is made with the document the
\* run holds
PushRecordLogged(c) ==
  /\ PushRecord(c)
  /\ pushLog' = [pushLog EXCEPT !.covered =
                   (runs[c].pos :> pushLog.snapshot[runs[c].pos]) @@ @]

\* appends of concurrent handlers to a session's record while sync runs
\* whose storage operations succeed go on
EscapeNext ==
  /\ \/ AppendIngest /\ UNCHANGED pushLog
     \/ /\ \/ \E c \in CallIds : syncData(c) /\ UNCHANGED pushLog
           \/ \E c \in CallIds : FindPendingLogged(c)
           \/ \E c \in CallIds : PushRecordLogged(c)
           \/ \E c \in CallIds : SaveRecord(c) /\ UNCHANGED pushLog
        /\ UNCHANGED <<ingestVars, forceVars>>
  /\ UNCHANGED <<connVars, decodeVars, btVars, procVars, peripherals, brokerUrl,
                 requests, ctlVars>>

(***************************************************************************)
(* forceSyncRecords next to the periodic sync runs                         *)
(***************************************************************************)
ForcedNext ==
  /\ \/ CoreSync
     \/ ForceSteps /\ UNCHANGED ingestVars
  /\ UNCHANGED <<connVars, decodeVars, restVars>>

(***************************************************************************)
(* Frame decoding on its own                                               *)
(***************************************************************************)
Pending == [type |-> "pending"]

DecodeIdle == frame = <<>> /\ decoded = Pending

\* parseDeviceData(frame) is called and returns
Decode ==
  /\ decoded = Pending
  /\ decoded' = parseDeviceData(frame)
  /\ UNCHANGED frame

DecodeNext ==
  /\ Decode
  /\ UNCHANGED <<connVars, ingestVars, sessions, syncVars, forceVars, restVars>>

(***************************************************************************)
(* Simulated Bluetooth service: setupBluetoothClient                       *)
(***************************************************************************)
\* bluetoothConfig.simulatedDevices
SimulatedDevices == {"D1", "D2"}

\* device ids connectToDevice is called with
ConnectTargets == SimulatedDevices \cup {"D3"}

\* stopSimulatedDataStream(deviceId): the device's emission timer is cleared
\* and forgotten
stopSimulatedDataStream(intervals, deviceId) == intervals \ {deviceId}

\* startSimulatedDataStream(deviceId): any existing stream is stopped, a new
\* interval is set and stored
startSimulatedDataStream(intervals, deviceId) ==
  stopSimulatedDataStream(intervals, deviceId) \cup {deviceId}

\* a connectToDevice call up to its first await: it returns true at once for
\* a connected device and otherwise waits for the simulated connection delay
connectCall(deviceId, connected) ==
  [pc |-> IF deviceId \in connected THEN "done" ELSE "delay",
   device |-> deviceId,
   result |-> deviceId \in connected,
   failed |-> FALSE]

\* setupBluetoothClient() has returned the client
BtInit ==
  /\ isScanning = FALSE
  /\ pendingDiscoveries = 0
  /\ connectedDevices = {}
  /\ dataIntervals = {}
  /\ btMessageCountResetInterval = TRUE
  /\ connects = <<>>
  /\ disconnectCalled = FALSE

\* client.startScanning(): nothing happens while a scan is active, otherwise
\* the discovery timeout is set
startScanning ==
  /\ isScanning \/ pendingDiscoveries < MaxPendingDiscoveries
  /\ IF isScanning
       THEN UNCHANGED <<isScanning, pendingDiscoveries>>
       ELSE /\ isScanning' = TRUE
            /\ pendingDiscoveries' = pendingDiscoveries + 1
  /\ UNCHANGED <<connectedDevices, dataIntervals, btMessageCountResetInterval,
                 connects, disconnectCalled>>

\* client.stopScanning()
stopScanning ==
  /\ isScanning' = FALSE
  /\ UNCHANGED <<pendingDiscoveries, connectedDevices, dataIntervals,
                 btMessageCountResetInterval, connects, disconnectCalled>>

\* the discovery timeout fires: connectToDevice is called for every
\* simulated device, in list order, without being awaited
DeviceDiscovery ==
  /\ pendingDiscoveries > 0
  /\ Len(connects) + Cardinality(SimulatedDevices) <= MaxConnects
  /\ pendingDiscoveries' = pendingDiscoveries - 1
  /\ connects' = connects \o <<connectCall("D1", connectedDevices),
                                connectCall("D2", connectedDevices)>>
  /\ UNCHANGED <<isScanning, connectedDevices, dataIntervals,
                 btMessageCountResetInterval, disconnectCalled>>

\* client.connectToDevice(deviceId) is called
connectToDevice(deviceId) ==
  /\ Len(connects) < MaxConnects
  /\ connects' = Append(connects, connectCall(deviceId, connectedDevices))
  /\ UNCHANGED <<isScanning, pendingDiscoveries, connectedDevices,
                 dataIntervals, btMessageCountResetInterval, disconnectCalled>>

\* the connection delay has passed: an id that is not a simulated device
\* throws (caught, the call returns false); otherwise the device is stored
\* as connected and Device.findOne is awaited
ConnectDelayElapsed(c) ==
  /\ connects[c].pc = "delay"
  /\ IF connects[c].device \in SimulatedDevices
       THEN /\ connectedDevices' = connectedDevices \cup {connects[c].device}
            /\ connects' = [connects EXCEPT ![c].pc = "findDevice"]
       ELSE /\ connects' = [connects EXCEPT ![c].pc = "done", ![c].result = FALSE]
            /\ UNCHANGED connectedDevices
  /\ UNCHANGED <<isScanning, pendingDiscoveries, dataIntervals,
                 btMessageCountResetInterval, disconnectCalled>>

\* Device.findOne resolves: a registered device is updated and saved first,
\* for any other the data stream is started and the call returns true
ConnectFindDevice(c) ==
  /\ connects[c].pc = "findDevice"
  /\ IF connects[c].device \in RegisteredDevices
       THEN /\ connects' = [connects EXCEPT ![c].pc = "saveDevice"]
            /\ UNCHANGED dataIntervals
       ELSE /\ connects' = [connects EXCEPT ![c].pc = "done", ![c].result = TRUE]
            /\ dataIntervals' =
                 startSimulatedDataStream(dataIntervals, connects[c].device)
  /\ UNCHANGED <<isScanning, pendingDiscoveries, connectedDevices,
                 btMessageCountResetInterval, disconnectCalled>>

\* dbDevice.save() resolves: the data stream is started, the call returns
\* true
ConnectSaveDevice(c) ==
  /\ connects[c].pc = "saveDevice"
  /\ connects' = [connects EXCEPT ![c].pc = "done", ![c].result = TRUE]
  /\ dataIntervals' = startSimulatedDataStream(dataIntervals, connects[c].device)
  /\ UNCHANGED <<isScanning, pendingDiscoveries, connectedDevices,
                 btMessageCountResetInterval, disconnectCalled>>

\* Device.findOne or dbDevice.save() rejects: the catch clause logs and the
\* call returns false
ConnectStorageFails(c) ==
  /\ connects[c].pc \in {"findDevice", "saveDevice"}
  /\ Cardinality({x \in 1 .. Len(connects) : connects[x].failed}) < MaxConnectFailures
  /\ connects' = [connects EXCEPT ![c].pc = "done", ![c].result = FALSE,
                                   ![c].failed = TRUE]
  /\ UNCHANGED <<isScanning, pendingDiscoveries, connectedDevices,
                 dataIntervals, btMessageCountResetInterval, disconnectCalled>>

\* client.disconnectDevice(deviceId): nothing happens for a device that is
\* not connected; otherwise its stream is stopped and it is removed
disconnectDevice(deviceId) ==
  /\ IF deviceId \in connectedDevices
       THEN /\ dataIntervals' = stopSimulatedDataStream(dataIntervals, deviceId)
            /\ connectedDevices' = connectedDevices \ {deviceId}
       ELSE UNCHANGED <<dataIntervals, connectedDevices>>
  /\ UNCHANGED <<isScanning, pendingDiscoveries, btMessageCountResetInterval,
                 connects, disconnectCalled>>

\* client.disconnect(): the message count interval is cleared,
\* disconnectDevice is called for every connected device, scanning stops
BluetoothDisconnect ==
  /\ btMessageCountResetInterval' = FALSE
  /\ dataIntervals' = dataIntervals \ connectedDevices
  /\ connectedDevices' = {}
  /\ isScanning' = FALSE
  /\ disconnectCalled' = TRUE
  /\ UNCHANGED <<pendingDiscoveries, connects>>

BtNext ==
  /\ \/ startScanning
     \/ stopScanning
     \/ DeviceDiscovery
     \/ \E d \in ConnectTargets : connectToDevice(d)
     \/ \E c \in 1 .. Len(connects) : ConnectDelayElapsed(c)
     \/ \E c \in 1 .. Len(connects) : ConnectFindDevice(c)
     \/ \E c \in 1 .. Len(connects) : ConnectSaveDevice(c)
     \/ \E c \in 1 .. Len(connects) : ConnectStorageFails(c)
     \/ \E d \in ConnectTargets : disconnectDevice(d)
     \/ BluetoothDisconnect
  /\ UNCHANGED <<connVars, ingestVars, sessions, syncVars, forceVars, decodeVars,
                 procVars, peripherals, brokerUrl, requests, pushLog, ctlVars>>

(***************************************************************************)
(* Bluetooth peripherals: connectToDevice(peripheral) and its reconnects   *)
(***************************************************************************)
PeripheralIds == {"P1", "P2"}

\* bluetoothConfig.maxReconnectAttempts of the peripheral service; the
\* value of the broker configuration is used
peripheralMaxReconnectAttempts == maxReconnectAttempts

\* the delay of the reconnect timeout set by the disconnect handler
peripheralDelay(count) == Min(reconnectDelay * Pow2(count), maxReconnectDelay)

\* no peripheral has been discovered
PeripheralInit ==
  peripherals = [p \in PeripheralIds |->
                   [pc |-> "none", connected |-> FALSE, handler |-> FALSE,
                    reconnectCount |-> 0, timer |-> 0, calls |-> 0,
                    reconnecting |-> FALSE]]

\* connectToDevice(peripheral) is called for a discovered peripheral and
\* awaits peripheral.connectAsync()
connectPeripheral(p) ==
  /\ peripherals[p].pc = "none"
  /\ peripherals[p].calls = 0
  /\ peripherals' = [peripherals EXCEPT ![p].pc = "connectAsync", ![p].calls = 1]

\* peripheral.connectAsync() resolves: the peripheral is stored, its count
\* reset, the disconnect handler registered once; service discovery follows
ConnectAsyncResolves(p) ==
  /\ peripherals[p].pc = "connectAsync"
  /\ peripherals' = [peripherals EXCEPT ![p].pc = "discover",
                                         ![p].connected = TRUE,
                                         ![p].reconnectCount = 0,
                                         ![p].handler = TRUE]

\* peripheral.connectAsync() rejects (connection refused or timed out): the
\* catch clause logs and rethrows; the timeout callback of a reconnect logs
\* the error
ConnectAsyncRejects(p) ==
  /\ peripherals[p].pc = "connectAsync"
  /\ peripherals' = [peripherals EXCEPT ![p].pc = "failed"]

\* discovery, subscription and the device update have completed or thrown:
\* connectToDevice returns or rethrows
DiscoverySettles(p) ==
  /\ peripherals[p].pc = "discover"
  /\ peripherals' = [peripherals EXCEPT ![p].pc = "returned"]

\* peripheral "disconnect": the handler removes the peripheral and, below
\* the maximum, counts an attempt and sets the reconnect timeout
PeripheralDisconnects(p) ==
  /\ peripherals[p].handler
  /\ LET c == peripherals[p].reconnectCount
     IN IF c < peripheralMaxReconnectAttempts
          THEN peripherals' = [peripherals EXCEPT ![p].handler = FALSE,
                                                  ![p].connected = FALSE,
                                                  ![p].reconnectCount = c + 1,
                                                  ![p].timer = peripheralDelay(c)]
          ELSE peripherals' = [peripherals EXCEPT ![p].handler = FALSE,
                                                  ![p].connected = FALSE]

\* the reconnect timeout fires: connectToDevice(peripheral) is called again
ReconnectTimeout(p) ==
  /\ peripherals[p].timer > 0
  /\ peripherals[p].calls < MaxPeripheralAttempts
  /\ peripherals' = [peripherals EXCEPT ![p].pc = "connectAsync",
                                         ![p].timer = 0,
                                         ![p].calls = @ + 1,
                                         ![p].reconnecting = TRUE]

PeripheralNext ==
  /\ \/ \E p \in PeripheralIds : connectPeripheral(p)
     \/ \E p \in PeripheralIds : ConnectAsyncResolves(p)
     \/ \E p \in PeripheralIds : ConnectAsyncRejects(p)
     \/ \E p \in PeripheralIds : DiscoverySettles(p)
     \/ \E p \in PeripheralIds : PeripheralDisconnects(p)
     \/ \E p \in PeripheralIds : ReconnectTimeout(p)
  /\ UNCHANGED <<connVars, ingestVars, sessions, syncVars, forceVars, decodeVars,
                 btVars, procVars, brokerUrl, requests, pushLog, ctlVars>>

\* a pending connectAsync settles and a timeout that is set fires
PeripheralFairness ==
  /\ WF_peripherals(ConnectAsyncResolves("P1") \/ ConnectAsyncRejects("P1"))
  /\ WF_peripherals(ConnectAsyncResolves("P2") \/ ConnectAsyncRejects("P2"))
  /\ WF_peripherals(ReconnectTimeout("P1"))
  /\ WF_peripherals(ReconnectTimeout("P2"))

(***************************************************************************)
(* Authentication: forgotPassword                                          *)
(***************************************************************************)
\* email addresses of the users in the database
RegisteredEmails == {"ann@example.com"}

\* values of req.body.email; the empty string stands for a missing one
Emails == RegisteredEmails \cup {"bob@example.com", ""}

RequestIds == 1 .. MaxRequests

\* the message of both success responses
ResetMessage ==
  "If your email is registered, you will receive a password reset link"

\* jwt.sign({ id: user._id }, secret, { expiresIn: "1h" }) for the user with
\* this email
resetTokenOf(email) == [id |-> email, expiresIn |-> "1h"]

AuthInit ==
  requests = [q \in RequestIds |-> [pc |-> "none", email |-> "", response |-> <<>>]]

\* the response sent for a user that was found
responseForUser(email) ==
  [status |-> 200,
   body |-> [success |-> TRUE, message |-> ResetMessage,
             resetToken |-> resetTokenOf(email)]]

\* forgotPassword(req, res, next) up to its await: a request without an
\* email is answered with 400, otherwise User.findOne is awaited
forgotPassword(q, email) ==
  /\ requests[q].pc = "none"
  /\ IF q = 1 THEN TRUE ELSE requests[q - 1].pc # "none"
  /\ IF email = ""
       THEN requests' = [requests EXCEPT
              ![q] = [pc |-> "done", email |-> email,
                      response |-> [status |-> 400,
                                    body |-> [success |-> FALSE,
                                              message |-> "Please provide your email address"]]]]
       ELSE requests' = [requests EXCEPT ![q] = [pc |-> "findOne", email |-> email,
                                                 response |-> <<>>]]

\* User.findOne resolves: without a user the success message is sent, for a
\* user the token is signed, logged and sent with the success message
ForgotFindOne(q) ==
  /\ requests[q].pc = "findOne"
  /\ requests' = [requests EXCEPT
       ![q].pc = "done",
       ![q].response =
          IF requests[q].email \in RegisteredEmails
            THEN responseForUser(requests[q].email)
            ELSE [status |-> 200,
                  body |-> [success |-> TRUE, message |-> ResetMessage]]]

\* User.findOne rejects: the error is passed to next()
ForgotFindOneFails(q) ==
  /\ requests[q].pc = "findOne"
  /\ requests' = [requests EXCEPT ![q].pc = "error"]

AuthNext ==
  /\ \/ \E q \in RequestIds, email \in Emails : forgotPassword(q, email)
     \/ \E q \in RequestIds : ForgotFindOne(q)
     \/ \E q \in RequestIds : ForgotFindOneFails(q)
  /\ UNCHANGED <<connVars, ingestVars, sessions, syncVars, forceVars, decodeVars,
                 btVars, procVars, peripherals, brokerUrl, pushLog, ctlVars>>

(***************************************************************************)
(* Server process: startServer, gracefulShutdown                           *)
(***************************************************************************)
\* the grace period of gracefulShutdown, in milliseconds
GracePeriod == 10000

\* the module has been loaded and startServer() has called server.listen()
\* and registered the signal handlers
ProcInit ==
  /\ syncInterval = FALSE
  /\ syncTimers = 0
  /\ httpServer = "starting"
  /\ closeCallbacks = 0
  /\ dbConnection = "open"
  /\ dbCallbacks = 0
  /\ forceTimers = 0
  /\ shutdownCalls = 0
  /\ exitCode = Undefined

(***************************************************************************)
(* REST controllers: devices, patients, session data                       *)
(***************************************************************************)
\* req.user._id of the authenticated doctor
Doctors == {"U1", "U2"}

PatientIds == {"P1", "P2"}

\* _id of the devices, in order of creation
ControllerDeviceIds == 1 .. MaxDevices

\* assignedPatient is not set (null)
NoPatient == "null"

\* req.body has no assignedPatient (undefined)
NotMentioned == "undefined"

\* a document that was deleted
deletedDevice ==
  [exists |-> FALSE, assignedDoctor |-> "", assignedPatient |-> NoPatient]

deletedPatient ==
  [exists |-> FALSE, assignedDoctor |-> "", name |-> "", devices |-> <<>>]

deviceExists(d) == d <= Len(devices) /\ devices[d].exists

\* Patient.findByIdAndUpdate(p, {$push: {devices: d}}): nothing happens when
\* no such patient is stored
pushDevice(ps, p, d) ==
  IF p \in PatientIds /\ ps[p].exists
    THEN [ps EXCEPT ![p].devices = Append(@, d)]
    ELSE ps

\* Patient.findByIdAndUpdate(p, {$pull: {devices: d}}): every occurrence is
\* removed
pullDevice(ps, p, d) ==
  IF p \in PatientIds /\ ps[p].exists
    THEN [ps EXCEPT ![p].devices = SelectSeq(@, LAMBDA x : x # d)]
    ELSE ps

response(op, u, kind, id, status) ==
  [op |-> op, user |-> u, kind |-> kind, id |-> id, status |-> status]

\* the patients in storage at the start: P1 of doctor U1, P2 of doctor U2
ControllerInit ==
  /\ devices = <<>>
  /\ patients = [p \in PatientIds |->
                   [exists |-> TRUE,
                    assignedDoctor |-> IF p = "P1" THEN "U1" ELSE "U2",
                    name |-> "a", devices |-> <<>>]]
  /\ emgData = <<>>
  /\ res = response("none", "", "", 0, 0)

\* GET /api/devices/:id
getDevice(u, d) ==
  /\ res' = response("getDevice", u, "device", d,
                     IF ~deviceExists(d) THEN 404
                     ELSE IF devices[d].assignedDoctor # u THEN 403
                     ELSE 200)
  /\ UNCHANGED <<devices, patients, emgData>>

\* POST /api/devices: the device is created for the doctor who asks and
\* pushed on the devices list of the patient the body names
registerDevice(u, p) ==
  /\ Len(devices) < MaxDevices
  /\ devices' = Append(devices, [exists |-> TRUE, assignedDoctor |-> u,
                                 assignedPatient |-> p])
  /\ patients' = IF p # NoPatient
                   THEN pushDevice(patients, p, Len(devices) + 1)
                   ELSE patients
  /\ res' = response("registerDevice", u, "device", Len(devices) + 1, 201)
  /\ UNCHANGED emgData

\* PUT /api/devices/:id with a body that sets assignedPatient to p, or does
\* not mention it
updateDevice(u, d, p) ==
  IF ~deviceExists(d)
    THEN /\ res' = response("updateDevice", u, "device", d, 404)
         /\ UNCHANGED <<devices, patients, emgData>>
  ELSE IF devices[d].assignedDoctor # u
    THEN /\ res' = response("updateDevice", u, "device", d, 403)
         /\ UNCHANGED <<devices, patients, emgData>>
  ELSE LET oldPatientId == devices[d].assignedPatient
           newPatientId == p
           pulled == IF oldPatientId # NoPatient
                       THEN pullDevice(patients, oldPatientId, d)
                       ELSE patients
           pushed == IF newPatientId \notin {NoPatient, NotMentioned}
                       THEN pushDevice(pulled, newPatientId, d)
                       ELSE pulled
       IN /\ devices' = IF p = NotMentioned
                          THEN devices
                          ELSE [devices EXCEPT ![d].assignedPatient = p]
          /\ patients' = IF oldPatientId # newPatientId THEN pushed ELSE patients
          /\ res' = response("updateDevice", u, "device", d, 200)
          /\ UNCHANGED emgData

\* DELETE /api/devices/:id
deleteDevice(u, d) ==
  IF ~deviceExists(d)
    THEN /\ res' = response("deleteDevice", u, "device", d, 404)
         /\ UNCHANGED <<devices, patients, emgData>>
  ELSE IF devices[d].assignedDoctor # u
    THEN /\ res' = response("deleteDevice", u, "device", d, 403)
         /\ UNCHANGED <<devices, patients, emgData>>
  ELSE /\ patients' = IF devices[d].assignedPatient # NoPatient
                        THEN pullDevice(patients, devices[d].assignedPatient, d)
                        ELSE patients
       /\ devices' = [devices EXCEPT ![d] = deletedDevice]
       /\ res' = response("deleteDevice", u, "device", d, 200)
       /\ UNCHANGED emgData

\* GET /api/patients/:id
getPatient(u, p) ==
  /\ res' = response("getPatient", u, "patient", p,
                     IF ~patients[p].exists THEN 404
                     ELSE IF patients[p].assignedDoctor # u THEN 403
                     ELSE 200)
  /\ UNCHANGED <<devices, patients, emgData>>

\* PUT /api/patients/:id with a body that sets the name
updatePatient(u, p, name) ==
  IF ~patients[p].exists
    THEN /\ res' = response("updatePatient", u, "patient", p, 404)
         /\ UNCHANGED <<devices, patients, emgData>>
  ELSE IF patients[p].assignedDoctor # u
    THEN /\ res' = response("updatePatient", u, "patient", p, 403)
         /\ UNCHANGED <<devices, patients, emgData>>
  ELSE /\ patients' = [patients EXCEPT ![p].name = name]
       /\ res' = response("updatePatient", u, "patient", p, 200)
       /\ UNCHANGED <<devices, emgData>>

\* DELETE /api/patients/:id: assignedPatient is unset on every device that
\* names the patient, then the patient is deleted
deletePatient(u, p) ==
  IF ~patients[p].exists
    THEN /\ res' = response("deletePatient", u, "patient", p, 404)
         /\ UNCHANGED <<devices, patients, emgData>>
  ELSE IF patients[p].assignedDoctor # u
    THEN /\ res' = response("deletePatient", u, "patient", p, 403)
         /\ UNCHANGED <<devices, patients, emgData>>
  ELSE /\ devices' = [d \in DOMAIN devices |->
                        IF devices[d].exists /\ devices[d].assignedPatient = p
                          THEN [devices[d] EXCEPT !.assignedPatient = NoPatient]
                          ELSE devices[d]]
       /\ patients' = [patients EXCEPT ![p] = deletedPatient]
       /\ res' = response("deletePatient", u, "patient", p, 200)
       /\ UNCHANGED emgData

\* POST /api/data/emg for device d
postEMGData(u, d) ==
  IF ~deviceExists(d)
    THEN /\ res' = response("postEMGData", u, "device", d, 404)
         /\ UNCHANGED <<devices, patients, emgData>>
  ELSE IF devices[d].assignedDoctor # u
    THEN /\ res' = response("postEMGData", u, "device", d, 403)
         /\ UNCHANGED <<devices, patients, emgData>>
  ELSE IF devices[d].assignedPatient = NoPatient
    THEN /\ res' = response("postEMGData", u, "device", d, 400)
         /\ UNCHANGED <<devices, patients, emgData>>
  ELSE /\ Len(emgData) < MaxRecords
       /\ emgData' = Append(emgData, [device |-> d,
                                      patient |-> devices[d].assignedPatient,
                                      doctor |-> u])
       /\ res' = response("postEMGData", u, "device", d, 201)
       /\ UNCHANGED <<devices, patients>>

\* GET /api/data/emg/:id
getEMGSession(u, r) ==
  /\ res' = response("getEMGSession", u, "session", r,
                     IF r > Len(emgData) THEN 404
                     ELSE IF emgData[r].doctor # u THEN 403
                     ELSE 200)
  /\ UNCHANGED <<devices, patients, emgData>>

\* the requests that change the association of devices and patients
AssociationRequests ==
  \/ \E u \in Doctors, p \in PatientIds \cup {NoPatient} : registerDevice(u, p)
  \/ \E u \in Doctors, d \in ControllerDeviceIds,
        p \in PatientIds \cup {NoPatient, NotMentioned} : updateDevice(u, d, p)
  \/ \E u \in Doctors, d \in ControllerDeviceIds : deleteDevice(u, d)
  \/ \E u \in Doctors, p \in PatientIds : deletePatient(u, p)

AssociationNext ==
  /\ AssociationRequests
  /\ UNCHANGED <<connVars, ingestVars, sessions, syncVars, forceVars, decodeVars,
                 btVars, procVars, peripherals, brokerUrl, requests, pushLog>>

\* requests to the device, patient and data controllers, one at a time
ControllerNext ==
  /\ \/ AssociationRequests
     \/ \E u \in Doctors, d \in ControllerDeviceIds : getDevice(u, d)
     \/ \E u \in Doctors, p \in PatientIds : getPatient(u, p)
     \/ \E u \in Doctors, p \in PatientIds, name \in {"a", "b"} :
          updatePatient(u, p, name)
     \/ \E u \in Doctors, d \in ControllerDeviceIds : postEMGData(u, d)
     \/ \E u \in Doctors, r \in 1 .. MaxRecords : getEMGSession(u, r)
  /\ UNCHANGED <<connVars, ingestVars, sessions, syncVars, forceVars, decodeVars,
                 btVars, procVars, peripherals, brokerUrl, requests, pushLog>>

RestInit ==
  /\ BtInit /\ ProcInit /\ PeripheralInit /\ AuthInit /\ PushLogInit
  /\ ControllerInit
  /\ brokerUrl = ConfiguredUrl

Running == exitCode = Undefined

\* syncService.startSyncJob(): a new interval is set and stored, whatever
\* this.syncInterval holds
startSyncJob ==
  /\ syncTimers' = syncTimers + 1
  /\ syncInterval' = TRUE

\* syncService.stopSyncJob(): the stored interval, if any, is cleared
stopSyncJob ==
  IF syncInterval
    THEN /\ syncTimers' = syncTimers - 1
         /\ syncInterval' = FALSE
    ELSE UNCHANGED <<syncInterval, syncTimers>>

\* the callback of server.listen(): the server listens, the sync job starts
ServerListening ==
  /\ Running
  /\ httpServer = "starting"
  /\ httpServer' = "listening"
  /\ startSyncJob
  /\ UNCHANGED <<closeCallbacks, dbConnection, dbCallbacks, forceTimers,
                 shutdownCalls, exitCode>>
  /\ UNCHANGED <<connVars, ingestVars, sessions, syncVars, forceVars,
                 decodeVars, btVars, peripherals, brokerUrl, requests, pushLog, ctlVars>>

\* a live interval of the sync job fires and calls syncData()
SyncTimerFires(c) ==
  /\ Running
  /\ syncTimers > 0
  /\ syncData(c)
  /\ UNCHANGED <<connVars, ingestVars, forceVars, decodeVars, restVars>>

\* a step of a syncData() run of the process
SyncRunStep(c) ==
  /\ Running
  /\ FindPending(c)
  /\ UNCHANGED <<connVars, ingestVars, forceVars, decodeVars, restVars>>

\* gracefulShutdown() without the forced-exit timeout
gracefulShutdownNoTimer ==
  /\ Running
  /\ httpServer # "starting"
  /\ shutdownCalls < MaxSignals
  /\ shutdownCalls' = shutdownCalls + 1
  /\ stopSyncJob
  /\ BluetoothDisconnect
  /\ httpServer' = IF httpServer = "listening" THEN "closing" ELSE httpServer
  /\ closeCallbacks' = closeCallbacks + 1
  /\ UNCHANGED forceTimers
  /\ UNCHANGED <<dbConnection, dbCallbacks, exitCode>>
  /\ UNCHANGED <<connVars, ingestVars, sessions, syncVars, forceVars, decodeVars,
                 peripherals, brokerUrl, requests, pushLog, ctlVars>>

\* gracefulShutdown(), the handler of SIGTERM and SIGINT: the sync job is
\* stopped, the Bluetooth client disconnected, server.close() called and the
\* forced-exit timeout set
gracefulShutdown ==
  /\ Running
  /\ httpServer # "starting"
  /\ shutdownCalls < MaxSignals
  /\ shutdownCalls' = shutdownCalls + 1
  /\ stopSyncJob
  /\ BluetoothDisconnect
  /\ httpServer' = IF httpServer = "listening" THEN "closing" ELSE httpServer
  /\ closeCallbacks' = closeCallbacks + 1
  /\ forceTimers' = forceTimers + 1
  /\ UNCHANGED <<dbConnection, dbCallbacks, exitCode>>
  /\ UNCHANGED <<connVars, ingestVars, sessions, syncVars, forceVars, decodeVars,
                 peripherals, brokerUrl, requests, pushLog, ctlVars>>

\* the HTTP server has closed (its last connection has ended): every pending
\* callback of server.close() runs and calls mongoose.connection.close()
HttpServerClosed ==
  /\ Running
  /\ closeCallbacks > 0
  /\ httpServer' = "closed"
  /\ dbCallbacks' = dbCallbacks + closeCallbacks
  /\ closeCallbacks' = 0
  /\ dbConnection' = IF dbConnection = "open" THEN "closing" ELSE dbConnection
  /\ UNCHANGED <<syncInterval, syncTimers, forceTimers, shutdownCalls, exitCode>>
  /\ UNCHANGED <<connVars, ingestVars, sessions, syncVars, forceVars,
                 decodeVars, btVars, peripherals, brokerUrl, requests, pushLog, ctlVars>>

\* the database connection has closed: the callback calls process.exit(0)
DbConnectionClosed ==
  /\ Running
  /\ dbCallbacks > 0
  /\ dbConnection' = "closed"
  /\ exitCode' = 0
  /\ UNCHANGED <<syncInterval, syncTimers, httpServer, closeCallbacks,
                 dbCallbacks, forceTimers, shutdownCalls>>
  /\ UNCHANGED <<connVars, ingestVars, sessions, syncVars, forceVars,
                 decodeVars, btVars, peripherals, brokerUrl, requests, pushLog, ctlVars>>

\* a forced-exit timeout fires: process.exit(1)
ForceExit ==
  /\ Running
  /\ forceTimers > 0
  /\ exitCode' = 1
  /\ UNCHANGED <<syncInterval, syncTimers, httpServer, closeCallbacks,
                 dbConnection, dbCallbacks, forceTimers, shutdownCalls>>
  /\ UNCHANGED <<connVars, ingestVars, sessions, syncVars, forceVars,
                 decodeVars, btVars, peripherals, brokerUrl, requests, pushLog, ctlVars>>

\* the Bluetooth client in the server process: it is called while the
\* process serves, its timers and awaits go on for as long as the process
\* runs
ProcBluetooth ==
  /\ Running
  /\ \/ shutdownCalls = 0 /\ startScanning
     \/ shutdownCalls = 0 /\ connectToDevice("D1")
     \/ DeviceDiscovery
     \/ \E c \in 1 .. Len(connects) : ConnectDelayElapsed(c)
     \/ \E c \in 1 .. Len(connects) : ConnectFindDevice(c)
     \/ \E c \in 1 .. Len(connects) : ConnectSaveDevice(c)
  /\ UNCHANGED <<connVars, ingestVars, sessions, syncVars, forceVars, decodeVars,
                 procVars, peripherals, brokerUrl, requests, pushLog, ctlVars>>

\* syncService.startSyncJob() is called
CallStartSyncJob ==
  /\ Running
  /\ syncTimers < MaxStartCalls
  /\ startSyncJob
  /\ UNCHANGED <<httpServer, closeCallbacks, dbConnection, dbCallbacks,
                 forceTimers, shutdownCalls, exitCode>>
  /\ UNCHANGED <<connVars, ingestVars, sessions, syncVars, forceVars,
                 decodeVars, btVars, peripherals, brokerUrl, requests, pushLog, ctlVars>>

\* syncService.stopSyncJob() is called
CallStopSyncJob ==
  /\ Running
  /\ stopSyncJob
  /\ UNCHANGED <<httpServer, closeCallbacks, dbConnection, dbCallbacks,
                 forceTimers, shutdownCalls, exitCode>>
  /\ UNCHANGED <<connVars, ingestVars, sessions, syncVars, forceVars,
                 decodeVars, btVars, peripherals, brokerUrl, requests, pushLog, ctlVars>>

\* the sync job started and stopped in any order, its timers firing
SyncJobNext ==
  \/ CallStartSyncJob
  \/ CallStopSyncJob
  \/ \E c \in CallIds : SyncTimerFires(c)
  \/ \E c \in CallIds : SyncRunStep(c)

ProcNext ==
  \/ ServerListening
  \/ \E c \in CallIds : SyncTimerFires(c)
  \/ \E c \in CallIds : SyncRunStep(c)
  \/ gracefulShutdown
  \/ HttpServerClosed
  \/ DbConnectionClosed
  \/ ForceExit
  \/ ProcBluetooth

\* the process from the call of setupMqttClient on: the client, if there is
\* one, connects, loses its connection and is disconnected, while the sync
\* job runs and a simulated device is connected
SetupNext ==
  \/ /\ \/ setupMqttClient
        \/ OnConnect
        \/ OnClose
        \/ clientState \notin {"unset", "absent"} /\ ClientDisconnect
     /\ UNCHANGED <<ingestVars, sessions, syncVars, forceVars, decodeVars, restVars>>
  \/ ServerListening
  \/ \E c \in CallIds : SyncTimerFires(c)
  \/ \E c \in CallIds : SyncRunStep(c)
  \/ /\ \/ connectToDevice("D2")
        \/ \E c \in 1 .. Len(connects) : ConnectDelayElapsed(c)
        \/ \E c \in 1 .. Len(connects) : ConnectFindDevice(c)
     /\ UNCHANGED <<connVars, ingestVars, sessions, syncVars, forceVars, decodeVars,
                    procVars, peripherals, brokerUrl, requests, pushLog, ctlVars>>

\* the process with a scanning Bluetooth client and no sync run
ShutdownNext ==
  \/ ServerListening
  \/ gracefulShutdown
  \/ HttpServerClosed
  \/ DbConnectionClosed
  \/ ForceExit
  \/ /\ Running
     /\ \/ shutdownCalls = 0 /\ startScanning
        \/ DeviceDiscovery
        \/ \E c \in 1 .. Len(connects) : ConnectDelayElapsed(c)
        \/ \E c \in 1 .. Len(connects) : ConnectFindDevice(c)
        \/ \E c \in 1 .. Len(connects) : ConnectSaveDevice(c)
     /\ UNCHANGED <<connVars, ingestVars, sessions, syncVars, forceVars,
                    decodeVars, procVars, peripherals, brokerUrl, requests, pushLog, ctlVars>>

(***************************************************************************)
(* Specifications                                                          *)
(***************************************************************************)
\* a store holding more than one batch of unsynced documents of each kind
LargeStore ==
  [i \in 1 .. (BatchLimit + ExtraEMG + BatchLimit + ExtraEMS) |->
     newSessionDoc(IF i <= BatchLimit + ExtraEMG THEN "emg" ELSE "ems",
                   "D1", ToString(i), <<>>, 0)]

\* a store holding one partial batch of unsynced documents of each kind
SmallStore ==
  [i \in 1 .. (SmallEMG + SmallEMS) |->
     newSessionDoc(IF i <= SmallEMG THEN "emg" ELSE "ems",
                   "D1", ToString(i), <<>>, 0)]

\* a store whose first EMG documents, more than a batch, are rejected at
\* every save, followed by one EMG and one EMS document that are not
RejectingStore ==
  [i \in 1 .. (BatchLimit + 3) |->
     newSessionDoc(IF i <= BatchLimit + 2 THEN "emg" ELSE "ems",
                   "D1", ToString(i), <<>>, 0)]

\* every service freshly constructed, the store empty
Init ==
  /\ ConnInit /\ IngestInit /\ SyncInit /\ ForceInit /\ DecodeIdle /\ RestInit
  /\ sessions = <<>>

\* every service freshly constructed, the store holding a backlog
InitBatch ==
  /\ ConnInit /\ IngestInit /\ SyncInit /\ ForceInit /\ DecodeIdle /\ RestInit
  /\ sessions = LargeStore

\* every service freshly constructed, the store holding documents that are
\* rejected at every save
InitRejecting ==
  /\ ConnInit /\ IngestInit /\ SyncInit /\ ForceInit /\ DecodeIdle /\ RestInit
  /\ sessions = RejectingStore

\* every service freshly constructed, the store holding a few documents
InitSmall ==
  /\ ConnInit /\ IngestInit /\ SyncInit /\ ForceInit /\ DecodeIdle /\ RestInit
  /\ sessions = SmallStore

\* every service freshly constructed, the store holding the unsynced record
\* of session S1 with the data points of an earlier message
InitSession ==
  /\ ConnInit /\ IngestInit /\ SyncInit /\ ForceInit /\ DecodeIdle /\ RestInit
  /\ sessions = <<newSessionDoc("emg", "D1", "S1", samplesOf(0, MaxSamples), 0)>>

\* parseDeviceData about to be called with any frame of up to MaxFrameLen bytes
InitDecode ==
  /\ ConnInit /\ IngestInit /\ SyncInit /\ ForceInit /\ RestInit
  /\ sessions = <<>>
  /\ frame \in Frames
  /\ decoded = Pending

\* the services before setupMqttClient() is called, the broker URL configured
\* or not
InitSetup ==
  /\ ConnUnset /\ IngestInit /\ SyncInit /\ ForceInit /\ DecodeIdle
  /\ BtInit /\ ProcInit /\ PeripheralInit /\ AuthInit /\ PushLogInit
  /\ ControllerInit
  /\ brokerUrl \in BrokerUrls
  /\ sessions = <<>>

\* the process from the call of setupMqttClient on
SpecSetup == InitSetup /\ [][SetupNext]_vars

\* the MQTT client from mqtt.connect() on
SpecConn == Init /\ [][ConnNext]_vars

\* messages delivered to the aggregator, starting from an empty store
SpecIngest == Init /\ [][IngestNext]_vars

\* concurrent appends to one record while sync runs go on
SpecAppend == InitSession /\ [][AppendNext]_vars

\* forced syncs and sync runs over a store holding a few documents
SpecForced == InitSmall /\ [][ForcedNext]_vars

\* messages of one session handled while sync runs and a forced sync go on
SpecCore == Init /\ [][CoreNext]_vars

\* one session's messages delivered one after the other
SpecSequential == Init /\ [][SequentialNext]_vars

\* one session's events handled concurrently, with storage failures
SpecSession == Init /\ [][SessionNext]_vars

SpecUnknown == Init /\ [][UnknownNext]_vars

\* device and patient requests that change the association
SpecAssociation == Init /\ [][AssociationNext]_vars

\* requests of two doctors to the device, patient and data controllers
SpecControllers == Init /\ [][ControllerNext]_vars

\* the simulated Bluetooth service from setupBluetoothClient() on
SpecBluetooth == Init /\ [][BtNext]_vars

\* the server process from startServer() to its exit
SpecProcess == Init /\ [][ProcNext]_vars

\* the server process, where a timeout that is set fires
SpecProcessFair == Init /\ [][ShutdownNext]_vars /\ WF_vars(ForceExit)

\* the Bluetooth peripherals from their discovery on
SpecPeripheral == Init /\ [][PeripheralNext]_vars

\* the Bluetooth peripherals, where a pending connect settles and a timeout
\* that is set fires
SpecPeripheralFair == Init /\ [][PeripheralNext]_vars /\ PeripheralFairness

\* the forgot-password requests served by the process
SpecAuth == Init /\ [][AuthNext]_vars

\* the sync job under any sequence of startSyncJob and stopSyncJob calls
SpecSyncJob == Init /\ [][SyncJobNext]_vars

\* appends to an existing record and sync runs, the cloud calls observed
SpecEscape == InitSession /\ [][EscapeNext]_vars

\* the frame decoder applied to one frame
SpecDecode == InitDecode /\ [][DecodeNext]_vars

\* the sync service against a store with a backlog of unsynced documents
SpecSyncBatch == InitBatch /\ [][SyncNext]_vars

\* the sync service against a store with a few unsynced documents
SpecSyncSmall == InitSmall /\ [][SyncNext]_vars

\* the sync service against a few unsynced documents, where every await of
\* a run settles
SpecSyncSmallFair == InitSmall /\ [][SyncNext]_vars /\ SyncFairness

\* sync runs without end against a backlog whose first documents are
\* rejected at every save
SpecRecurring == InitRejecting /\ [][RecurringNext]_vars /\ RecurringFairness

(***************************************************************************)
(* Properties of the sync service                                          *)
(***************************************************************************)
InProgress(c) == runs[c].pc \in {"find", "push", "save"}

AttemptedOf(c, type) == {i \in runs[c].attempted : sessions[i].kind = type}

\* completed runs up to and including call c
DoneUpTo(c) == {d \in CallIds : d <= c /\ runs[d].pc = "done"}

EMGIds == {i \in 1 .. Len(sessions) : sessions[i].kind = "emg"}

\* C1: at most one syncData run is in progress at any time; a call issued
\* while a run is in progress is skipped without fetching or pushing anything
\* and is never started later
C1_SingleFlight ==
  /\ [](Cardinality({c \in CallIds : InProgress(c)}) <= 1)
  /\ [][\A c \in CallIds :
          /\ (runs[c].pc = "none" /\ runs'[c].pc # "none" /\ isSyncing)
               => /\ runs'[c] = [idleRun EXCEPT !.pc = "skipped"]
                  /\ sessions' = sessions
                  /\ \A d \in CallIds \ {c} : runs'[d] = runs[d]
          /\ runs[c].pc = "skipped" => runs'[c] = runs[c]]_vars

C1_Witness ==
  \E c, d \in CallIds :
    /\ runs[c].pc = "skipped"
    /\ runs[d].pc = "save"
    /\ d < c

\* C9: one run fetches and attempts at most 100 EMG documents and at most
\* 100 EMS documents, however many unsynced documents exist
C9_BatchSize ==
  \A c \in CallIds :
    /\ Cardinality(runs[c].emgBatch) <= 100
    /\ Cardinality(runs[c].emsBatch) <= 100
    /\ Cardinality(AttemptedOf(c, "emg")) <= 100
    /\ Cardinality(AttemptedOf(c, "ems")) <= 100

C9_Witness ==
  \E c \in CallIds :
    /\ runs[c].pc = "done"
    /\ Cardinality(AttemptedOf(c, "emg")) = 100
    /\ Cardinality(AttemptedOf(c, "ems")) = 100
    /\ \E i \in 1 .. Len(sessions) : sessions[i].kind = "emg" /\ ~sessions[i].synced
    /\ \E i \in 1 .. Len(sessions) : sessions[i].kind = "ems" /\ ~sessions[i].synced

\* C10: starting from 150 unsynced EMG documents and with no failure, the
\* first run attempts exactly 100 of them, the next run attempts exactly the
\* other 50, after which all are synced and none was attempted twice
C10_CarryOver ==
  storageFailures = 0 =>
    \A c \in CallIds :
      /\ (runs[c].pc = "done" /\ Cardinality(DoneUpTo(c)) = 1)
           => Cardinality(AttemptedOf(c, "emg")) = 100
      /\ (runs[c].pc = "done" /\ Cardinality(DoneUpTo(c)) = 2)
           => /\ Cardinality(AttemptedOf(c, "emg")) = Cardinality(EMGIds) - 100
              /\ \A d \in DoneUpTo(c) \ {c} :
                   AttemptedOf(c, "emg") \cap AttemptedOf(d, "emg") = {}
              /\ \A i \in EMGIds : sessions[i].synced /\ sessions[i].pushes = 1

C10_Witness ==
  /\ storageFailures = 0
  /\ Cardinality(EMGIds) = 150
  /\ \E c \in CallIds :
       /\ runs[c].pc = "done"
       /\ Cardinality(DoneUpTo(c)) = 2
       /\ Cardinality(AttemptedOf(c, "emg")) = 50

\* no call after c has started a run
LastRun(c) == \A d \in CallIds : d > c => runs[d].pc \in {"none", "skipped"}

\* the run that follows run c, if one has completed
NextDone(c, d) ==
  /\ c < d
  /\ runs[c].pc = "done"
  /\ runs[d].pc = "done"
  /\ \A x \in CallIds : (c < x /\ x < d) => runs[x].pc = "skipped"

\* C11: a rejected save does not end the run: when the run is over every
\* fetched record has been attempted, the records whose save was rejected are
\* stored unsynced and all the others are stored synced
C11_FailureIsolated ==
  \A c \in CallIds :
    (runs[c].pc = "done" /\ LastRun(c)) =>
      /\ runs[c].attempted = runs[c].emgBatch \cup runs[c].emsBatch
      /\ runs[c].failed \subseteq runs[c].attempted
      /\ \A i \in runs[c].attempted : sessions[i].synced <=> i \notin runs[c].failed

C11_Witness ==
  \E c \in CallIds :
    /\ runs[c].pc = "done"
    /\ LastRun(c)
    /\ Cardinality(runs[c].emgBatch) = 10
    /\ Cardinality(runs[c].failed) = 1
    /\ Cardinality({i \in runs[c].emgBatch : sessions[i].synced}) = 9
    /\ Cardinality({i \in runs[c].emgBatch : ~sessions[i].synced}) = 1

\* C12: a run pushes each record it fetched at most once; a record whose save
\* was rejected stays unsynced until a later run, and the next run that
\* fetches its kind fetches and attempts it again
C12_RetryNextRun ==
  /\ [](\A c, d \in CallIds :
          /\ (runs[c].pc = "done" /\ LastRun(c)) =>
                \A i \in runs[c].failed : ~sessions[i].synced
          /\ NextDone(c, d) =>
                \A i \in runs[c].failed :
                  sessions[i].kind \in runs[d].fetched =>
                    /\ i \in batchOf([runs[d] EXCEPT !.kind = sessions[i].kind])
                    /\ i \in runs[d].attempted)
  /\ [][\A i \in 1 .. Len(sessions) :
          sessions'[i].pushes # sessions[i].pushes =>
            /\ sessions'[i].pushes = sessions[i].pushes + 1
            /\ \E c \in CallIds : /\ InProgress(c)
                                   /\ i \notin runs[c].attempted
                                   /\ i \in runs'[c].attempted]_vars

C12_Witness ==
  \E c, d \in CallIds :
    /\ NextDone(c, d)
    /\ runs[c].failed # {}
    /\ runs[c].failed \subseteq runs[d].attempted
    /\ \A i \in runs[c].failed : sessions[i].synced /\ sessions[i].pushes = 2

(***************************************************************************)
(* Properties of the MQTT connection supervisor                            *)
(***************************************************************************)
\* C4: the delay computed at the reconnect attempt that brings the count to
\* a is min(1000 * 2^a, 30000), which is 30000 from a = 5 on; a fresh client
\* (a = 0) starts with the base delay
C4_BackoffFormula ==
  /\ reconnectCount = 0 => reconnectPeriod = 1000
  /\ [][reconnectCount' = reconnectCount + 1 =>
          /\ reconnectCount' < 5 => reconnectPeriod' = 1000 * 2 ^ reconnectCount'
          /\ reconnectCount' >= 5 => reconnectPeriod' = 30000]_vars

C4_Witness ==
  /\ reconnectCount = 9
  /\ reconnectPeriod = 30000
  /\ Len(observedDelays) >= 6
  /\ observedDelays[5] = 16000
  /\ observedDelays[6] = 30000

\* C5: while connected after a 'connect' event, the attempt counter is 0 and
\* the reconnect delay in effect is the base delay
C5_ConnectResets ==
  clientState = "connected" =>
    /\ reconnectCount = 0
    /\ reconnectPeriod = reconnectDelay

\* C6 as stated: with a broker that is never reached, the delays waited
\* before the first three reconnect attempts are 2000, 4000, 8000 ms
C6_DelaysAsStated ==
  (~everConnected /\ Len(observedDelays) >= 3) =>
    SubSeq(observedDelays, 1, 3) = <<2000, 4000, 8000>>

\* C6 amended: with a broker that is never reached, the delays waited before
\* the first three reconnect attempts are 1000, 2000, 4000 ms; the delay
\* computed at the n-th attempt (2000, 4000, 8000) is the one waited before
\* attempt n + 1
C6_DelaysObserved ==
  /\ (~everConnected /\ Len(observedDelays) >= 3) =>
       SubSeq(observedDelays, 1, 3) = <<1000, 2000, 4000>>
  /\ (~everConnected /\ Len(observedDelays) >= 4) =>
       SubSeq(observedDelays, 2, 4) = <<2000, 4000, 8000>>

C6_Witness ==
  /\ ~everConnected
  /\ Len(observedDelays) = 4
  /\ reconnectCount = 4

\* C7: the attempt counter never exceeds maxReconnectAttempts: once it has
\* reached the maximum no further reconnect attempt is made, whether the
\* connection was lost with an error or with a plain close
C7_AttemptsBounded == reconnectCount <= maxReconnectAttempts

\* C8: a terminated client (attempts exhausted, or disconnect() called while
\* connected, disconnected or reconnecting) is never connecting or connected
\* again
C8_TerminatedAbsorbing ==
  terminated => clientState \notin {"connecting", "connected"}

(***************************************************************************)
(* Properties of the session aggregator                                    *)
(***************************************************************************)
\* the messages delivered for a (kind, device, session)
EventsOf(t, d, s) ==
  {e \in EventIds : /\ handlers[e].pc # "none"
                    /\ handlers[e].type = t
                    /\ handlers[e].device = d
                    /\ handlers[e].sessionId = s}

RecordsOf(t, d, s) ==
  {i \in 1 .. Len(sessions) : /\ sessions[i].kind = t
                              /\ sessions[i].device = d
                              /\ sessions[i].sessionId = s}

RECURSIVE InArrivalOrder(_, _)
\* the data points of the messages of E among 1 .. e, in arrival order
InArrivalOrder(E, e) ==
  IF e = 0 THEN <<>>
  ELSE InArrivalOrder(E, e - 1) \o
         (IF e \in E THEN handlers[e].dataPoints ELSE <<>>)

\* C2: after the messages delivered for one (kind, device, session) have been
\* handled, exactly one record exists for it
C2_OneRecordPerSession ==
  Quiescent =>
    \A t \in DataTypes, d \in RegisteredDevices, s \in SessionIds :
      EventsOf(t, d, s) # {} => Cardinality(RecordsOf(t, d, s)) = 1

\* C3: after the messages of one (kind, device, session) have been handled,
\* its record holds the data points of all of them in arrival order
C3_PayloadInArrivalOrder ==
  Quiescent =>
    \A t \in DataTypes, d \in RegisteredDevices, s \in SessionIds :
      Cardinality(RecordsOf(t, d, s)) = 1 =>
        \A i \in RecordsOf(t, d, s) :
          sessions[i].dataPoints = InArrivalOrder(EventsOf(t, d, s), MaxEvents)

(***************************************************************************)
(* Frame decoder properties                                                *)
(***************************************************************************)
\* C18: for every frame shorter than the 13-byte header, the empty frame
\* included, and whatever its first byte (1 and 2 among them),
\* parseDeviceData returns null instead of throwing
C18_ShortFrameNull ==
  (decoded # Pending /\ Len(frame) < HeaderLen) => decoded = Null

\* an EMS frame one byte short of the header has been decoded to null
C18_Witness ==
  /\ Len(frame) = HeaderLen - 1
  /\ frame[1] = 2
  /\ decoded = Null

(***************************************************************************)
(* Properties of the session timestamps and of record creation             *)
(***************************************************************************)
\* C15: once an append has set a record's endTime, no later append stores a
\* smaller endTime, also when the handlers overlap
C15_EndTimeMonotone ==
  [][\A i \in 1 .. Len(sessions) :
       sessions[i].endTime # 0 => sessions'[i].endTime >= sessions[i].endTime]_vars

\* C16: message A with 3 data points for (D1, S1) is handled, then message B
\* with 2 data points for (D1, S1): one record holds A's three data points
\* followed by B's two and its endTime is the time B arrived with
C16_CreateThenAppend ==
  (/\ handlers[1].pc = "done" /\ ~handlers[1].failed
   /\ Len(handlers[1].dataPoints) = 3
   /\ handlers[2].pc = "done" /\ ~handlers[2].failed
   /\ Len(handlers[2].dataPoints) = 2
   /\ handlers[3].pc = "none")
  => /\ Len(sessions) = 1
     /\ sessions[1].dataPoints = <<1, 1, 1, 2, 2>>
     /\ sessions[1].endTime = handlers[2].timestamp

\* C17: the record a handler creates has startTime equal to the time its
\* event arrived with, synced = false and exactly the event's data points
C17_CreatedRecord ==
  [][\A e \in EventIds :
       (/\ handlers[e].pc = "create" /\ handlers'[e].pc = "done"
        /\ Len(sessions') = Len(sessions) + 1) =>
         LET doc == sessions'[Len(sessions')]
         IN /\ doc.startTime = handlers[e].timestamp
            /\ ~doc.synced
            /\ doc.dataPoints = handlers[e].dataPoints]_vars

(***************************************************************************)
(* Properties of dropped events                                            *)
(***************************************************************************)
\* number of stored data points that came with event e
storedOf(e) ==
  Cardinality({p \in (1 .. Len(sessions)) \X (1 .. MaxEvents * MaxSamples) :
                 /\ p[2] <= Len(sessions[p[1]].dataPoints)
                 /\ sessions[p[1]].dataPoints[p[2]] = e})

\* a frame with a known discriminator, the whole header and, for EMS, its
\* three stimulation-parameter bytes
WellFormed(data) ==
  /\ Len(data) >= HeaderLen
  /\ IF data[1] = 1 THEN TRUE
     ELSE IF data[1] = 2 THEN Len(data) >= HeaderLen + 3
     ELSE FALSE

\* C19: a frame with an unknown discriminator or a truncated frame decodes
\* to null and leaves nothing in the store, and a well-formed frame that
\* arrives after it is processed into a session record
C19_MalformedDropped ==
  \A e \in EventIds :
    (handlers[e].source = "bluetooth" /\ handlers[e].pc = "done"
     /\ ~handlers[e].failed) =>
      IF ~WellFormed(handlers[e].raw)
        THEN parseDeviceData(handlers[e].raw) = Null /\ storedOf(e) = 0
        ELSE (\E x \in 1 .. (e - 1) : /\ handlers[x].source = "bluetooth"
                                      /\ ~WellFormed(handlers[x].raw))
               => storedOf(e) > 0

\* C20: a handler whose storage operation failed has returned and has left
\* nothing of its event in the store; a handler that has returned never
\* runs again; a message handled without a failure, also after a failed
\* one, has all its data points stored
C20_SurvivesStorageErrors ==
  /\ [](\A e \in EventIds :
          /\ handlers[e].failed => (handlers[e].pc = "done" /\ storedOf(e) = 0)
          /\ (handlers[e].pc = "done" /\ handlers[e].source = "mqtt"
              /\ ~handlers[e].failed)
               => storedOf(e) = Len(handlers[e].dataPoints))
  /\ [][\A e \in EventIds :
          handlers[e].pc = "done" => handlers'[e] = handlers[e]]_vars

\* a message has been stored in full after an earlier event was dropped on a
\* storage error
C20_Witness ==
  \E e1, e2 \in EventIds :
    /\ e1 < e2
    /\ handlers[e1].failed
    /\ handlers[e2].pc = "done" /\ ~handlers[e2].failed
    /\ handlers[e2].source = "mqtt"
    /\ storedOf(e2) = Len(handlers[e2].dataPoints)
    /\ storedOf(e2) > 0

(***************************************************************************)
(* Properties of stored records under ingestion and sync together          *)
(***************************************************************************)
\* a is a prefix of b
IsPrefix(a, b) == Len(a) <= Len(b) /\ SubSeq(b, 1, Len(a)) = a

\* C13: no step of the aggregator, of a sync run or of forceSyncRecords
\* takes a record's synced flag from true to false; a record is created
\* unsynced; the flag becomes true only by the successful save of that
\* record in a sync run or in forceSyncRecords
C13_SyncedMonotone ==
  [][/\ \A i \in 1 .. Len(sessions) :
          /\ sessions[i].synced => sessions'[i].synced
          /\ (~sessions[i].synced /\ sessions'[i].synced) =>
               \/ \E c \in CallIds : /\ runs[c].pc = "save" /\ runs[c].pos = i
                                      /\ runs'[c] # runs[c]
                                      /\ i \notin runs'[c].failed
               \/ \E f \in ForceIds : /\ forces[f].pc = "save" /\ forces[f].pos = i
                                       /\ forces'[f].successCount = forces[f].successCount + 1
     /\ \A i \in (Len(sessions) + 1) .. Len(sessions') : ~sessions'[i].synced]_vars

\* a record synced by a sync run and pushed again by forceSyncRecords is
\* about to receive an append
C13_Witness ==
  /\ Len(sessions) >= 1
  /\ sessions[1].synced
  /\ \E c \in CallIds : runs[c].pc = "done" /\ 1 \in runs[c].attempted
  /\ \E f \in ForceIds : forces[f].pc = "done" /\ forces[f].successCount >= 1
  /\ \E e \in EventIds : handlers[e].pc = "update" /\ handlers[e].existing = 1

\* C14: every step leaves each record's data points as a prefix of its data
\* points afterwards, also when appends of overlapping handlers are applied
\* one after the other and when a sync run saves a record that received an
\* append after the run fetched it
C14_AppendsAdditive ==
  [][\A i \in 1 .. Len(sessions) :
       /\ i <= Len(sessions')
       /\ IsPrefix(sessions[i].dataPoints, sessions'[i].dataPoints)]_vars

\* a sync run is about to save record 1, which has received the append of a
\* message that arrived after the run's cloud call, while the handler of
\* another message is about to append to it too
C14_Witness ==
  \E c \in CallIds, e1, e2 \in EventIds :
    /\ runs[c].pc = "save" /\ runs[c].pos = 1
    /\ handlers[e1].pc = "done" /\ handlers[e1].existing = 1
    /\ handlers[e1].timestamp > runs[c].syncedAt
    /\ handlers[e2].pc = "update" /\ handlers[e2].existing = 1
    /\ Len(sessions[1].dataPoints) = 2 * MaxSamples

(***************************************************************************)
(* Properties of the device bookkeeping                                    *)
(***************************************************************************)
\* C21: a message whose handler saw device.save() (the lastConnected
\* update) fail still has all its data points stored in its session record
C21_BookkeepingBestEffort ==
  \A e \in EventIds :
    (/\ handlers[e].pc = "done"
     /\ handlers[e].source = "mqtt"
     /\ handlers[e].failedAt = "saveDevice")
    => storedOf(e) = Len(handlers[e].dataPoints)

(***************************************************************************)
(* Properties of forceSyncRecords                                          *)
(***************************************************************************)
\* the stored records of the call's kind whose id is among its recordIds
RequestedOf(f) ==
  {i \in forces[f].recordIds :
     i <= Len(sessions) /\ sessions[i].kind = forces[f].kind}

\* C22: a forceSyncRecords call that has returned has attempted each stored
\* record of its kind named in recordIds exactly once, a rejected save
\* included and not ending the loop, and its summary has total = number of
\* those records, success = number of them whose sync succeeded and
\* failed = total - success >= 0
C22_ForceSummary ==
  /\ [](\A f \in ForceIds :
          forces[f].pc = "done" =>
            LET c == forces[f]
            IN /\ c.records = RequestedOf(f)
               /\ Len(c.attempts) = Cardinality(c.records)
               /\ {c.attempts[k] : k \in 1 .. Len(c.attempts)} = c.records
               /\ c.failedIds \subseteq c.records
               /\ c.result.total = Cardinality(c.records)
               /\ c.result.success = Cardinality(c.records \ c.failedIds)
               /\ c.result.failed = c.result.total - c.result.success
               /\ c.result.failed >= 0
               /\ \A i \in c.records \ c.failedIds : sessions[i].synced)
  /\ [][\A f \in ForceIds :
          (forces[f].pc = "find" /\ forces'[f].pc \in {"push", "done"})
            => forces'[f].records = RequestedOf(f)]_vars

\* a call for two stored records has returned after the save of the first
\* one was rejected and the second one was synced
C22_Witness ==
  \E f \in ForceIds :
    /\ forces[f].pc = "done"
    /\ forces[f].records = {1, 2}
    /\ forces[f].failedIds = {1}
    /\ forces[f].attempts = <<1, 2>>
    /\ forces[f].result = [total |-> 2, success |-> 1, failed |-> 1]

\* C23: a forceSyncRecords call is never skipped, whatever isSyncing is, and
\* it never touches isSyncing, so that a sync run starts while a forced
\* sync is in progress; a record is then pushed by both
C23_ForceIgnoresGuard ==
  [][/\ \A f \in ForceIds :
          (forces[f].pc = "none" /\ forces'[f].pc # "none")
            => forces'[f].pc = "find"
     /\ (forces' # forces) => (isSyncing' = isSyncing /\ runs' = runs)]_vars

\* record 1 has been pushed twice: by a sync run that is still in progress
\* and by a forced sync that was called during that run and is still in
\* progress too
C23_Witness ==
  \E c \in CallIds, f \in ForceIds :
    /\ isSyncing
    /\ InProgress(c) /\ 1 \in runs[c].attempted
    /\ forces[f].pc = "save" /\ forces[f].attempts = <<1>>
    /\ sessions[1].pushes = 2
    /\ ~sessions[1].synced

(***************************************************************************)
(* Simulated Bluetooth service                                             *)
(***************************************************************************)
\* C25: synthetic frame emission runs only while connected: in every
\* reachable state a device has an emission timer only if it is in
\* connectedDevices, also when disconnectDevice(d) was called while
\* connectToDevice(d) was in progress.
C25_StreamOnlyWhileConnected == dataIntervals \subseteq connectedDevices

(***************************************************************************)
(* Server process                                                          *)
(***************************************************************************)
\* gracefulShutdown() has been called and the process has not exited
ShuttingDown == shutdownCalls > 0 /\ Running

\* C24: shutdown closes everything: once shutdown has been initiated
\* (stopSyncJob and the client's disconnect have been called) no device is
\* connected or becomes connected, also through a connect or a discovery
\* that was in flight, and the sync timer starts no new run.
C24_ShutdownClosesEverything ==
  /\ [](ShuttingDown => (connectedDevices = {} /\ syncTimers = 0))
  /\ [][ShuttingDown =>
         \A c \in CallIds : runs[c].pc = "none" => runs'[c].pc = "none"]_vars

\* C30: bounded shutdown: after a shutdown signal the process eventually
\* exits; it exits with code 0 only once the HTTP server and the database
\* connection have closed, and otherwise with code 1 from a forced-exit
\* timeout, even if closing never completes.
C30_BoundedShutdown ==
  /\ (shutdownCalls > 0) ~> ~Running
  /\ [](exitCode = 0 => (/\ shutdownCalls > 0
                         /\ httpServer = "closed"
                         /\ dbConnection = "closed"))
  /\ [](exitCode = 1 => (shutdownCalls > 0 /\ forceTimers > 0))

\* the process was forced to exit while the HTTP server was still closing
C30_Witness ==
  /\ shutdownCalls > 0
  /\ httpServer = "closing"
  /\ dbConnection = "open"
  /\ exitCode = 1

(***************************************************************************)
(* Properties of the EMG tail of a frame                                   *)
(***************************************************************************)
\* the signed 16-bit little-endian value of the bytes at offsets i and i + 1
Int16LEAt(data, i) ==
  LET u == byteAt(data, i) + 256 * byteAt(data, i + 1)
  IN IF u >= 32768 THEN u - 65536 ELSE u

\* the unsigned 32-bit little-endian value of the bytes at offsets 1 to 4
SessionNumber(data) ==
  byteAt(data, 1) + 256 * byteAt(data, 2) + 65536 * byteAt(data, 3)
    + 16777216 * byteAt(data, 4)

\* C29: EMG tail decoding: an EMG frame (discriminator 1) of length L >= 13
\* decodes to an event with exactly floor((L - 13) / 2) samples, the i-th
\* being the signed 16-bit little-endian value of bytes 13+2i and 14+2i; a
\* trailing odd byte is ignored and the sessionId is the decimal form of the
\* unsigned 32-bit little-endian value of bytes 1 to 4.
C29_EMGTailDecoded ==
  (decoded # Pending /\ Len(frame) >= HeaderLen /\ frame[1] = 1) =>
    IF DOMAIN decoded = {"type", "sessionId", "dataPoints"}
      THEN /\ decoded.type = "emg"
           /\ decoded.sessionId = toString(SessionNumber(frame))
           /\ Len(decoded.dataPoints) = (Len(frame) - HeaderLen) \div 2
           /\ \A i \in 0 .. (Len(decoded.dataPoints) - 1) :
                decoded.dataPoints[i + 1].value = Int16LEAt(frame, HeaderLen + 2 * i)
      ELSE FALSE

(***************************************************************************)
(* Properties of the reconnects                                            *)
(***************************************************************************)
\* C26: transport errors are retryable: after a failed connect or reconnect
\* attempt with the attempt count below the maximum another attempt is
\* eventually made, and a transport error never terminates the process.
C26_TransportErrorsRetryable ==
  /\ \A p \in PeripheralIds :
       (/\ peripherals[p].pc = "failed"
        /\ peripherals[p].reconnectCount < peripheralMaxReconnectAttempts
        /\ peripherals[p].calls < MaxPeripheralAttempts)
         ~> (peripherals[p].pc = "connectAsync")
  /\ []Running

(***************************************************************************)
(* Properties of the setup                                                 *)
(***************************************************************************)
\* C27: missing configuration disables the transport: without a broker URL
\* setupMqttClient returns (null) without raising, opens no connection,
\* starts no timer and registers no handler, so the connection state never
\* changes afterwards, and the call changes nothing else in the process.
C27_MissingUrlDisables ==
  /\ []((brokerUrl \in NoUrls /\ clientState # "unset") =>
          (/\ clientState = "absent"
           /\ ~isConnected
           /\ ~messageCountResetInterval
           /\ armedDelay = 0
           /\ reconnectPeriod = 0
           /\ reconnectCount = 0
           /\ observedDelays = <<>>))
  /\ [][(brokerUrl \in NoUrls /\ clientState = "absent") => UNCHANGED connVars]_vars
  /\ [][(brokerUrl \in NoUrls /\ clientState = "unset" /\ clientState' # "unset") =>
          UNCHANGED <<ingestVars, sessions, syncVars, forceVars, decodeVars,
                      restVars>>]_vars

\* without a broker URL the setup has returned, and later a sync run has
\* completed and a simulated device has connected
C27_Witness ==
  /\ brokerUrl \in NoUrls
  /\ clientState = "absent"
  /\ runs[1].pc = "done"
  /\ "D2" \in dataIntervals
  /\ "D2" \in connectedDevices

(***************************************************************************)
(* Properties of the authentication                                        *)
(***************************************************************************)
\* C28: forgot-password does not reveal registration: the responses (status
\* and body fields) to a request with a registered email and to one with an
\* email that is not registered are the same.
C28_NoEnumeration ==
  \A q1, q2 \in RequestIds :
    (/\ requests[q1].pc = "done"
     /\ requests[q2].pc = "done"
     /\ requests[q1].email \in RegisteredEmails
     /\ requests[q2].email \notin RegisteredEmails \cup {""})
      => requests[q1].response = requests[q2].response

(***************************************************************************)
(* Properties of the single-flight guard                                   *)
(***************************************************************************)
\* C31: the single-flight guard is always released: every run that starts
\* eventually ends, with isSyncing = false, also when the query or a record
\* sync fails; the guard is set only while a run is in progress, so a call
\* is skipped only because of a run that has not finished.
C31_GuardReleased ==
  /\ \A c \in CallIds : InProgress(c) ~> (runs[c].pc = "done")
  /\ [](isSyncing <=> \E c \in CallIds : InProgress(c))
  /\ [][\A c \in CallIds :
          /\ (InProgress(c) /\ runs'[c].pc = "done") => ~isSyncing'
          /\ (runs[c].pc = "none" /\ runs'[c].pc = "skipped")
               => \E d \in CallIds : InProgress(d)]_vars

\* a run whose query failed has ended and the next call has started a run
C31_Witness ==
  /\ runs[1].pc = "done"
  /\ runs[1].fetched = {}
  /\ storageFailures = 1
  /\ runs[2].pc = "push"
  /\ isSyncing

\* C32: at most one sync timer: under any sequence of startSyncJob and
\* stopSyncJob calls at most one interval timer is active, and none is
\* active when no job is started (at first and after stopSyncJob).
C32_AtMostOneTimer ==
  /\ syncTimers <= 1
  /\ ~syncInterval => syncTimers = 0

(***************************************************************************)
(* Properties of what is synced                                            *)
(***************************************************************************)
\* C33: no stored sample escapes sync: a record is marked synced only while
\* its latest cloud call sent every data point it holds, so that a data
\* point appended later, also to a record already marked synced, is sent by
\* a later run.
C33_NoSampleEscapes ==
  \A i \in 1 .. Len(sessions) :
    sessions[i].synced => coveredOf(i) = Len(sessions[i].dataPoints)

\* a run is making the cloud call for record i or saving its sync status
Attempting(i) ==
  \E c \in CallIds : runs[c].pc \in {"push", "save"} /\ runs[c].pos = i

\* the valid EMG document that follows the rejected ones
WatchedIds == {BatchLimit + 2}

\* C34: no sync starvation: while sync runs keep occurring every unsynced
\* record is eventually attempted by some run, even when more than 100
\* other unsynced records of its kind fail at every attempt.
C34_NoStarvation ==
  \A i \in WatchedIds : (~sessions[i].synced) ~> Attempting(i)

\* an event of a device that is not in storage is being handled
FromUnknown(e) ==
  handlers[e].pc # "none" /\ handlers[e].device \notin RegisteredDevices

\* C35: unknown devices create nothing: an event whose device id matches no
\* device in storage is dropped at the lookup, before decoding, and no step
\* of its handler changes a session record or a device record; every session
\* record refers to a device in storage.
C35_UnknownCreatesNothing ==
  /\ [](/\ \A e \in EventIds :
             FromUnknown(e) => handlers[e].pc \in {"findDevice", "done"}
        /\ \A i \in 1 .. Len(sessions) : sessions[i].device \in RegisteredDevices
        /\ DOMAIN deviceLastConnected = RegisteredDevices)
  /\ [][\A e \in EventIds :
          (FromUnknown(e) /\ handlers'[e] # handlers[e])
            => /\ handlers'[e].pc = "done"
               /\ UNCHANGED <<sessions, deviceLastConnected>>]_vars

C35_Witness ==
  /\ \E e \in EventIds :
       FromUnknown(e) /\ handlers[e].pc = "done" /\ handlers[e].source = "mqtt"
  /\ \E e \in EventIds :
       FromUnknown(e) /\ handlers[e].pc = "done" /\ handlers[e].source = "bluetooth"
  /\ Len(sessions) > 0

\* call c of connectToDevice returns false in this step
ReturnsFalse(c) ==
  /\ c <= Len(connects)
  /\ connects[c].pc # "done"
  /\ connects'[c].pc = "done"
  /\ ~connects'[c].result

\* no other call of connectToDevice has been made for the device of call c
OnlyCallFor(c) ==
  \A x \in 1 .. Len(connects) : connects[x].device = connects[c].device => x = c

\* C36: a failed connect leaves no trace: when connectToDevice(deviceId)
\* returns false, whichever step failed, deviceId is not in connectedDevices
\* and has no emission timer (no other call having connected it).
C36_FailedConnectLeavesNoTrace ==
  [][\A c \in 1 .. MaxConnects :
       (ReturnsFalse(c) /\ OnlyCallFor(c))
         => /\ connects[c].device \notin connectedDevices'
            /\ connects[c].device \notin dataIntervals']_vars

\* C37: scanning control: startScanning while a scan is active schedules no
\* second discovery, and once stopScanning has been called, with no later
\* startScanning, a discovery that was still pending discovers and connects
\* no device: a discovery is scheduled only when no scan is active and fires
\* only while the scan is active.
C37_ScanningControl ==
  [][/\ pendingDiscoveries' > pendingDiscoveries => ~isScanning
     /\ pendingDiscoveries' < pendingDiscoveries => isScanning]_vars

(***************************************************************************)
(* REST controllers                                                        *)
(***************************************************************************)
\* the number of times device d is on the list
occurrences(list, d) == Len(SelectSeq(list, LAMBDA x : x = d))

\* C38: the device-patient association is consistent: after any sequence of
\* registerDevice, updateDevice, deleteDevice and deletePatient requests a
\* patient's devices list holds a device exactly when the device exists and
\* its assignedPatient is that patient, and holds it once.
C38_AssociationConsistent ==
  \A p \in PatientIds, d \in ControllerDeviceIds :
    patients[p].exists =>
      occurrences(patients[p].devices, d) =
        IF deviceExists(d) /\ devices[d].assignedPatient = p THEN 1 ELSE 0

\* the doctor the record of the latest request is assigned to, "" for a
\* record that does not exist
ownerOf(kind, id) ==
  IF kind = "device" THEN (IF deviceExists(id) THEN devices[id].assignedDoctor ELSE "")
  ELSE IF kind = "patient" THEN patients[id].assignedDoctor
  ELSE IF id <= Len(emgData) THEN emgData[id].doctor ELSE ""

\* C39: ownership isolation: a request by doctor U reads, modifies or
\* deletes a device, patient or session record, or changes a patient's
\* devices list, only if the record's assigned doctor is U; otherwise the
\* response is 403, or 404 when the record is absent, and no stored state
\* changes.
C39_OwnershipIsolation ==
  [][LET u == res'.user
     IN /\ \A d \in ControllerDeviceIds :
             (d <= Len(devices) /\ devices'[d] # devices[d])
               => devices[d].assignedDoctor = u
        /\ \A p \in PatientIds :
             patients'[p] # patients[p] => patients[p].assignedDoctor = u
        /\ (res'.op # "registerDevice" /\ res'.status \in {200, 201})
             => ownerOf(res'.kind, res'.id) = u
        /\ (res'.op # "registerDevice" /\ ownerOf(res'.kind, res'.id) # u)
             => /\ res'.status = IF ownerOf(res'.kind, res'.id) = "" THEN 404 ELSE 403
                /\ UNCHANGED <<devices, patients, emgData>>]_vars

=========================================================================
